---- MODULE Spec2Model ----
(***************************************************************************)
(* Model of the SSL passthrough proxy of src/src/main.c: the buffer pool   *)
(* (acquire_buffer_pair / release_buffer_pair), the request log            *)
(* (log_request and its readers) and the per-connection task               *)
(* handle_client_task, spawned by tcp_server_task.                         *)
(*                                                                         *)
(* Tasks are FreeRTOS tasks.  A FreeRTOS mutex is a variable holding the   *)
(* id of the task that took it (Free when nobody has).  xSemaphoreTake     *)
(* with a finite timeout either obtains the mutex, or - only when another  *)
(* task holds it - may give up and return pdFALSE.                         *)
(*                                                                         *)
(* Time is not a variable of this model: the outcome of a tick comparison  *)
(* (idle timeout) and the elapsed time of a TTFB measurement are inputs    *)
(* chosen by the environment.                                              *)
(***************************************************************************)
EXTENDS Integers, Sequences, FiniteSets

\* ---- program constants -------------------------------------------------
REQUEST_LOG_SIZE == 10

\* ---- bounds of the model -----------------------------------------------
\* size of the pool (the build sets MAX_CONCURRENT_CLIENTS outside src/)
MAX_CONCURRENT_CLIENTS == 2
\* largest number of bytes one recv returns
MaxChunk == 1
\* successful (len > 0) recv calls in one run, over all connections
MaxRecv == 3

\* connections the acceptor accepts in one run: one more than the pool has slots
MaxConns == MAX_CONCURRENT_CLIENTS + 1
Conns == 1..MaxConns
Slots == 0..(MAX_CONCURRENT_CLIENTS - 1)
LogIdx == 0..(REQUEST_LOG_SIZE - 1)
\* the connections whose peers send data; the peers of the others only connect
\* and close
DataConns == {1}
\* a mutex nobody holds
Free == 0
\* a mutex that is not created yet (the handle is NULL)
NoMutex == -1
\* the HTTP server task, as a mutex holder
Httpd == MaxConns + 1
\* elapsed milliseconds a TTFB measurement of handle_client_task can observe
Elapsed == {0, 100}

VARIABLES
    in_use,             \* buffer_pool[i].in_use
    buffer_pool_mutex,  \* holder of buffer_pool_mutex
    request_log,        \* request_log[i]
    request_log_index,
    request_log_mutex,  \* holder of request_log_mutex
    avg_ttfb_ms,
    ttfb_sample_count,
    task,               \* per task: program counter and locals
    reader,             \* the HTTP server task running a dashboard handler
    hist,               \* what has happened to the pool and the request log (history)
    nrecv,              \* recv calls that returned data so far (history)
    now,                \* xTaskGetTickCount(), in polling slices of select()
    reframer,           \* the message buffer of a TLS-terminating connection (4.4)
    bridge,             \* the NAPT bridge of src/src/main.cpp: flags and loop position
    boot                \* the event group and the tasks of app_main's startup

vars == <<in_use, buffer_pool_mutex, request_log, request_log_index,
          request_log_mutex, avg_ttfb_ms, ttfb_sample_count, task, reader,
          hist, nrecv, now, reframer, bridge, boot>>

poolVars == <<in_use, buffer_pool_mutex>>
\* the state of the variants of the bridge that are not the passthrough proxy
variantVars == <<reframer, bridge, boot>>
logVars == <<request_log, request_log_index, request_log_mutex,
             avg_ttfb_ms, ttfb_sample_count>>

\* ---- initial values ----------------------------------------------------
\* a zero-initialised request_log_entry_t (timestamp is not modelled)
EmptyEntry ==
    [source_ip |-> 0, bytes_in |-> 0, bytes_out |-> 0, ttfb_ms |-> 0,
     result |-> 0, valid |-> FALSE]

NoArgs == [source_ip |-> 0, bytes_in |-> 0, bytes_out |-> 0, ttfb_ms |-> 0, result |-> 0]

\* locals of handle_client_task before the task exists
InitTask ==
    [pc |-> "none", ret |-> "none",
     client_sock |-> "none", powerwall_sock |-> "none",
     buffer_index |-> -1, rel_arg |-> -1,
     request_bytes_in |-> 0, request_bytes_out |-> 0,
     request_start_time |-> 0,
     awaiting_first_byte |-> FALSE, current_ttfb_ms |-> 0, request_result |-> 0,
     read_fds |-> {}, len |-> 0, total_sent |-> 0,
     last_activity |-> 0, client_buffer |-> <<>>, powerwall_buffer |-> <<>>,
     ttl_tried |-> FALSE, ttl |-> 0,
     log_args |-> NoArgs]

\* state after init_buffer_pool
InitShared ==
    /\ in_use = [i \in Slots |-> FALSE]
    /\ buffer_pool_mutex = Free
    /\ request_log = [i \in LogIdx |-> EmptyEntry]
    /\ request_log_index = 0
    /\ request_log_mutex = Free
    /\ avg_ttfb_ms = 0
    /\ ttfb_sample_count = 0

\* the HTTP server task outside its handlers
\* (avg: the avg_ttfb_ms a handler has put in its response, until it takes the mutex)
InitReader == [pc |-> "idle", avg |-> 0]

InitHist ==
    [lent |-> {},         \* slots acquire_buffer_pair returned, until release_buffer_pair returns
     recorded |-> <<>>,   \* the last REQUEST_LOG_SIZE entries written, oldest first
     nrecorded |-> 0,     \* log_request calls that wrote an entry
     called |-> <<>>,     \* the last REQUEST_LOG_SIZE log_request calls that returned
     ncalled |-> 0,       \* log_request calls that returned
     again |-> 0,         \* release_buffer_pair calls that cleared a slot already free
     calls |-> 0,         \* calls made by the drivers of SpecPool, SpecRing and SpecTtfb
     rd |-> [client |-> <<>>, powerwall |-> <<>>],  \* bytes recv() returned, by source socket
     wr |-> [client |-> <<>>, powerwall |-> <<>>],  \* bytes of that source send() accepted
     last_io |-> 0,       \* tick of the last recv() or send() that moved bytes
     retries |-> 0,       \* waits for a writable socket that ended writable
     expired |-> 0,       \* waits for a writable socket that expired
     started |-> 0,       \* tick at which the request being timed began (not wrapped)
     fwd |-> [client |-> 0, powerwall |-> 0]]  \* bytes of the chunks sent completely, by source

\* a TLS-terminating connection before its first message (4.4)
\* (cur, stream: the message the peer is sending and its bytes not read yet;
\* reads, detected, forwarded: history)
InitReframer ==
    [dir |-> "request", cur |-> <<>>, stream |-> <<>>, nmsg |-> 0,
     buf |-> <<>>, headers_len |-> 0, content_length |-> 0,
     reads |-> 0, detected |-> 0, forwarded |-> <<>>]

\* the globals of src/src/main.cpp after setup(), the loop task before loop()
\* (wifi_up, eth_up: the state of the two links, which the events report;
\* events, last, drops, sets: the events delivered, the last of them, the
\* disconnect and stop events among them and the times enableNAPT has set
\* napt_enabled; all history)
InitBridge ==
    [wifi_connected |-> FALSE, eth_connected |-> FALSE, napt_enabled |-> FALSE,
     need_napt_check |-> FALSE, need_web_server_start |-> FALSE,
     web_server_started |-> FALSE, pc |-> "loop",
     wifi_up |-> FALSE, eth_up |-> "down",
     events |-> 0, last |-> "none", drops |-> 0, sets |-> 0]

\* app_main after init_ethernet and init_wifi: no bit of s_event_group is set,
\* the HTTP server is not started, wifi_services_task and tcp_server_task do
\* not exist
\* (eth_seen: ETH_GOT_IP_BIT was set at some time; early: a handler ran
\* while request_log_mutex was NULL; events: events delivered; all history)
InitBootTasks ==
    [ETH_GOT_IP_BIT |-> FALSE, WIFI_CONNECTED_BIT |-> FALSE,
     app_main |-> "wait_eth", wifi_services |-> "none", tcp_server |-> "none",
     eth_seen |-> FALSE, early |-> FALSE, events |-> 0]

\* the state in which tcp_server_task accepts its first connection
Init ==
    /\ InitShared
    /\ task = [t \in Conns |-> InitTask]
    /\ reader = InitReader
    /\ hist = InitHist
    /\ nrecv = 0
    /\ now = 0
    /\ reframer = InitReframer
    /\ bridge = InitBridge
    /\ boot = [InitBootTasks EXCEPT !.ETH_GOT_IP_BIT = TRUE, !.WIFI_CONNECTED_BIT = TRUE,
                                    !.app_main = "done", !.wifi_services = "done",
                                    !.tcp_server = "accept", !.eth_seen = TRUE]

\* ---- buffer pool -------------------------------------------------------
\* the scan of acquire_buffer_pair: index of the first free slot, -1 if none
AcquireScan(pool) ==
    IF \E i \in Slots : ~pool[i]
    THEN CHOOSE i \in Slots : ~pool[i] /\ \A j \in Slots : j < i => pool[j]
    ELSE -1

\* the pool after acquire_buffer_pair marked slot idx (idx = -1: unchanged)
AcquireMark(pool, idx) ==
    IF idx \in Slots THEN [pool EXCEPT ![idx] = TRUE] ELSE pool

\* the range check of release_buffer_pair
ReleaseInRange(index) == index >= 0 /\ index < MAX_CONCURRENT_CLIENTS

\* a release that flips the flag instead of clearing it
ReleaseToggle(pool, index) == [pool EXCEPT ![index] = ~@]

\* the write of release_buffer_pair
ReleaseWrite(pool, index) == [pool EXCEPT ![index] = FALSE]

\* xSemaphoreTake(buffer_pool_mutex, 100 ms) succeeds
AcqTake(t) ==
    /\ task[t].pc = "acq_take"
    /\ buffer_pool_mutex = Free
    /\ buffer_pool_mutex' = t
    /\ task' = [task EXCEPT ![t].pc = "acq_cs"]
    /\ UNCHANGED <<in_use, logVars, reader, hist, nrecv, now, variantVars>>

\* a timed-out take that goes on into the scan and marks a slot without the mutex
AcqTimeoutScans(t) ==
    /\ task[t].pc = "acq_take"
    /\ buffer_pool_mutex \notin {Free, t}
    /\ LET idx == AcquireScan(in_use) IN
        /\ in_use' = AcquireMark(in_use, idx)
        /\ task' = [task EXCEPT ![t].pc = task[t].ret, ![t].buffer_index = idx]
        /\ hist' = [hist EXCEPT !.lent = IF idx >= 0 THEN @ \cup {idx} ELSE @]
    /\ UNCHANGED <<buffer_pool_mutex, logVars, reader, nrecv, now, variantVars>>

\* xSemaphoreTake(buffer_pool_mutex, 100 ms) times out: index stays -1
AcqTimeout(t) ==
    /\ task[t].pc = "acq_take"
    /\ buffer_pool_mutex \notin {Free, t}
    /\ task' = [task EXCEPT ![t].pc = task[t].ret, ![t].buffer_index = -1]
    /\ UNCHANGED <<poolVars, logVars, reader, hist, nrecv, now, variantVars>>

\* the critical section of acquire_buffer_pair, the give and the return
AcqScan(t) ==
    /\ task[t].pc = "acq_cs"
    /\ LET idx == AcquireScan(in_use) IN
        /\ in_use' = AcquireMark(in_use, idx)
        /\ task' = [task EXCEPT ![t].pc = task[t].ret, ![t].buffer_index = idx]
        /\ hist' = [hist EXCEPT !.lent = IF idx >= 0 THEN @ \cup {idx} ELSE @]
    /\ buffer_pool_mutex' = Free
    /\ UNCHANGED <<logVars, reader, nrecv, now, variantVars>>

\* release_buffer_pair with an index out of range: nothing happens
RelSkip(t) ==
    /\ task[t].pc = "rel_take"
    /\ ~ReleaseInRange(task[t].rel_arg)
    /\ task' = [task EXCEPT ![t].pc = task[t].ret]
    /\ hist' = [hist EXCEPT !.lent = @ \ {task[t].rel_arg}]
    /\ UNCHANGED <<poolVars, logVars, reader, nrecv, now, variantVars>>

\* xSemaphoreTake(buffer_pool_mutex, 100 ms) succeeds
RelTake(t) ==
    /\ task[t].pc = "rel_take"
    /\ ReleaseInRange(task[t].rel_arg)
    /\ buffer_pool_mutex = Free
    /\ buffer_pool_mutex' = t
    /\ task' = [task EXCEPT ![t].pc = "rel_cs"]
    /\ UNCHANGED <<in_use, logVars, reader, hist, nrecv, now, variantVars>>

\* xSemaphoreTake(buffer_pool_mutex, 100 ms) times out: release_buffer_pair
\* returns without clearing in_use
RelTimeout(t) ==
    /\ task[t].pc = "rel_take"
    /\ ReleaseInRange(task[t].rel_arg)
    /\ buffer_pool_mutex \notin {Free, t}
    /\ task' = [task EXCEPT ![t].pc = task[t].ret]
    /\ hist' = [hist EXCEPT !.lent = @ \ {task[t].rel_arg}]
    /\ UNCHANGED <<poolVars, logVars, reader, nrecv, now, variantVars>>

\* a release that clears every slot of the pool
RelClearAll(t) ==
    /\ task[t].pc = "rel_cs"
    /\ in_use' = [i \in Slots |-> FALSE]
    /\ buffer_pool_mutex' = Free
    /\ task' = [task EXCEPT ![t].pc = task[t].ret]
    /\ hist' = [hist EXCEPT !.lent = @ \ {task[t].rel_arg},
                            !.again = IF in_use[task[t].rel_arg] THEN @ ELSE @ + 1]
    /\ UNCHANGED <<logVars, reader, nrecv, now, variantVars>>

\* the critical section of release_buffer_pair, the give and the return
RelClear(t) ==
    /\ task[t].pc = "rel_cs"
    /\ in_use' = ReleaseWrite(in_use, task[t].rel_arg)
    /\ buffer_pool_mutex' = Free
    /\ task' = [task EXCEPT ![t].pc = task[t].ret]
    /\ hist' = [hist EXCEPT !.lent = @ \ {task[t].rel_arg},
                            !.again = IF in_use[task[t].rel_arg] THEN @ ELSE @ + 1]
    /\ UNCHANGED <<logVars, reader, nrecv, now, variantVars>>

\* ---- request log -------------------------------------------------------
\* an entry written without its valid flag
LogEntryNotValid(a) ==
    [source_ip |-> a.source_ip, bytes_in |-> a.bytes_in, bytes_out |-> a.bytes_out,
     ttfb_ms |-> a.ttfb_ms, result |-> a.result, valid |-> FALSE]

\* the entry log_request writes
LogEntry(a) ==
    [source_ip |-> a.source_ip, bytes_in |-> a.bytes_in, bytes_out |-> a.bytes_out,
     ttfb_ms |-> a.ttfb_ms, result |-> a.result, valid |-> TRUE]

\* an index that stops at the last entry instead of wrapping
LogAdvanceNoWrap(index) ==
    IF index + 1 < REQUEST_LOG_SIZE THEN index + 1 ELSE index

\* request_log_index after a write
LogAdvance(index) == (index + 1) % REQUEST_LOG_SIZE

\* a condition that takes a ttfb_ms of 0 for a sample
LogIsSampleAnyTtfb(a) == a.result = 0

\* log_request's condition for updating the running average
LogIsSample(a) == a.result = 0 /\ a.ttfb_ms > 0

\* the ranges of uint32_t (TickType_t, ttfb_ms) and uint16_t (current_ttfb_ms),
\* scaled to 12 and 8 bits; one tick is the 100 ms of a polling slice
UINT32_RANGE == 4096
UINT16_MAX == 255
portTICK_PERIOD_MS == 100

\* an average that weighs the first sample like the others
LogAverageNoSeed(avg, count, ttfb_ms) == (avg * 4 + ttfb_ms) \div 5

\* an average that divides the weighted sum by four
LogAverageDividesByFour(avg, count, ttfb_ms) ==
    IF count = 0 THEN ttfb_ms ELSE ((avg * 4 + ttfb_ms) % UINT32_RANGE) \div 4

\* avg_ttfb_ms after a sample, in 32-bit unsigned arithmetic
LogAverage(avg, count, ttfb_ms) ==
    IF count = 0 THEN ttfb_ms ELSE ((avg * 4 + ttfb_ms) % UINT32_RANGE) \div 5

\* ttfb_sample_count after a sample (no run of the model reaches 2^32)
LogCount(count) == count + 1

\* s with e appended, keeping the last REQUEST_LOG_SIZE elements
Window(s, e) ==
    IF Len(s) < REQUEST_LOG_SIZE THEN Append(s, e) ELSE Append(Tail(s), e)

\* xSemaphoreTake(request_log_mutex, 50 ms) succeeds
LogTake(t) ==
    /\ task[t].pc = "log_take"
    /\ request_log_mutex = Free
    /\ request_log_mutex' = t
    /\ task' = [task EXCEPT ![t].pc = "log_cs"]
    /\ UNCHANGED <<poolVars, request_log, request_log_index, avg_ttfb_ms,
                   ttfb_sample_count, reader, hist, nrecv, now, variantVars>>

\* log_request while request_log_mutex is NULL: it returns at once
LogNoMutex(t) ==
    /\ task[t].pc = "log_take"
    /\ request_log_mutex = NoMutex
    /\ task' = [task EXCEPT ![t].pc = task[t].ret]
    /\ hist' = [hist EXCEPT !.called = Window(@, LogEntry(task[t].log_args)),
                            !.ncalled = @ + 1]
    /\ UNCHANGED <<poolVars, logVars, reader, nrecv, now, variantVars>>

\* a timeout that moves request_log_index all the same
LogTimeoutAdvances(t) ==
    /\ task[t].pc = "log_take"
    /\ request_log_mutex \notin {Free, t, NoMutex}
    /\ task' = [task EXCEPT ![t].pc = task[t].ret]
    /\ hist' = [hist EXCEPT !.called = Window(@, LogEntry(task[t].log_args)),
                            !.ncalled = @ + 1]
    /\ request_log_index' = LogAdvance(request_log_index)
    /\ UNCHANGED <<poolVars, request_log, request_log_mutex, avg_ttfb_ms,
                   ttfb_sample_count, reader, nrecv, now, variantVars>>

\* xSemaphoreTake(request_log_mutex, 50 ms) times out: the record is dropped
LogTimeout(t) ==
    /\ task[t].pc = "log_take"
    /\ request_log_mutex \notin {Free, t, NoMutex}
    /\ task' = [task EXCEPT ![t].pc = task[t].ret]
    /\ hist' = [hist EXCEPT !.called = Window(@, LogEntry(task[t].log_args)),
                            !.ncalled = @ + 1]
    /\ UNCHANGED <<poolVars, logVars, reader, nrecv, now, variantVars>>

\* a log_request that returns without giving the mutex back
LogWriteNoGive(t) ==
    /\ task[t].pc = "log_cs"
    /\ LET a == task[t].log_args IN
        /\ request_log' = [request_log EXCEPT ![request_log_index] = LogEntry(a)]
        /\ request_log_index' = LogAdvance(request_log_index)
        /\ IF LogIsSample(a)
           THEN /\ avg_ttfb_ms' = LogAverage(avg_ttfb_ms, ttfb_sample_count, a.ttfb_ms)
                /\ ttfb_sample_count' = LogCount(ttfb_sample_count)
           ELSE UNCHANGED <<avg_ttfb_ms, ttfb_sample_count>>
        /\ hist' = [hist EXCEPT !.recorded = Window(@, LogEntry(a)),
                                !.nrecorded = @ + 1,
                                !.called = Window(@, LogEntry(a)),
                                !.ncalled = @ + 1]
    /\ request_log_mutex' = request_log_mutex
    /\ task' = [task EXCEPT ![t].pc = task[t].ret]
    /\ UNCHANGED <<poolVars, reader, nrecv, now, variantVars>>

\* the critical section of log_request, the give and the return
LogWrite(t) ==
    /\ task[t].pc = "log_cs"
    /\ LET a == task[t].log_args IN
        /\ request_log' = [request_log EXCEPT ![request_log_index] = LogEntry(a)]
        /\ request_log_index' = LogAdvance(request_log_index)
        /\ IF LogIsSample(a)
           THEN /\ avg_ttfb_ms' = LogAverage(avg_ttfb_ms, ttfb_sample_count, a.ttfb_ms)
                /\ ttfb_sample_count' = LogCount(ttfb_sample_count)
           ELSE UNCHANGED <<avg_ttfb_ms, ttfb_sample_count>>
        /\ hist' = [hist EXCEPT !.recorded = Window(@, LogEntry(a)),
                                !.nrecorded = @ + 1,
                                !.called = Window(@, LogEntry(a)),
                                !.ncalled = @ + 1]
    /\ request_log_mutex' = Free
    /\ task' = [task EXCEPT ![t].pc = task[t].ret]
    /\ UNCHANGED <<poolVars, reader, nrecv, now, variantVars>>

\* ---- dashboard readers -------------------------------------------------
\* a reader that starts at request_log_index instead of the entry before it
ReaderIdxFromIndex(index, i) == (index - i + REQUEST_LOG_SIZE) % REQUEST_LOG_SIZE

\* the index the readers visit in iteration i
ReaderIdx(index, i) == (index - 1 - i + REQUEST_LOG_SIZE) % REQUEST_LOG_SIZE

\* the entries a reader emits: iterations 0 .. REQUEST_LOG_SIZE-1, invalid ones skipped
RECURSIVE ReaderEmit(_, _, _)
ReaderEmit(log, index, i) ==
    IF i >= REQUEST_LOG_SIZE THEN <<>>
    ELSE LET e == log[ReaderIdx(index, i)] IN
         (IF e.valid THEN <<e>> ELSE <<>>) \o ReaderEmit(log, index, i + 1)

\* a handler starts: it formats avg_ttfb_ms into its response and sends it
ReaderStart ==
    /\ reader.pc = "idle"
    /\ reader' = [reader EXCEPT !.pc = "take", !.avg = avg_ttfb_ms]
    /\ UNCHANGED <<poolVars, logVars, task, hist, nrecv, now, variantVars>>

\* request_log_mutex is NULL: the handler emits no entry and returns
ReaderNoMutex ==
    /\ reader.pc = "take"
    /\ request_log_mutex = NoMutex
    /\ reader' = InitReader
    /\ UNCHANGED <<poolVars, logVars, task, hist, nrecv, now, variantVars>>

\* the handler takes request_log_mutex (100 ms)
ReaderTake ==
    /\ reader.pc = "take"
    /\ request_log_mutex = Free
    /\ request_log_mutex' = Httpd
    /\ reader' = [reader EXCEPT !.pc = "scan", !.avg = 0]
    /\ UNCHANGED <<poolVars, request_log, request_log_index, avg_ttfb_ms,
                   ttfb_sample_count, task, hist, nrecv, now, variantVars>>

\* the take times out: the handler emits no entry and returns
ReaderTimeout ==
    /\ reader.pc = "take"
    /\ request_log_mutex \notin {Free, Httpd, NoMutex}
    /\ reader' = InitReader
    /\ UNCHANGED <<poolVars, logVars, task, hist, nrecv, now, variantVars>>

\* the loop over the ring under the mutex has sent
\* ReaderEmit(request_log, request_log_index, 0); the give
ReaderScan ==
    /\ reader.pc = "scan"
    /\ reader' = [reader EXCEPT !.pc = "idle"]
    /\ request_log_mutex' = Free
    /\ UNCHANGED <<poolVars, request_log, request_log_index, avg_ttfb_ms,
                   ttfb_sample_count, task, hist, nrecv, now, variantVars>>

\* ---- tcp_server_task ---------------------------------------------------
\* an acceptor that waits for the tasks it started before it accepts again
NextToAcceptAfterDone(w) ==
    /\ task[w].client_sock = "none"
    /\ \A v \in Conns : v < w => (task[v].client_sock # "none"
                                    /\ task[v].pc \in {"none", "done"})

\* connections are accepted in the order of their numbers
NextToAccept(w) ==
    /\ task[w].client_sock = "none"
    /\ \A v \in Conns : v < w => task[v].client_sock # "none"

\* accept() returns a client socket and xTaskCreate starts handle_client_task,
\* which runs up to its call of acquire_buffer_pair
AcceptSpawn(w) ==
    /\ NextToAccept(w)
    /\ task' = [task EXCEPT ![w].pc = "acq_take", ![w].ret = "admit",
                            ![w].client_sock = "open"]
    /\ UNCHANGED <<poolVars, logVars, reader, hist, nrecv, now, variantVars>>

\* accept() returns a client socket and xTaskCreate fails: the socket is closed
AcceptNoTask(w) ==
    /\ NextToAccept(w)
    /\ task' = [task EXCEPT ![w].client_sock = "closed"]
    /\ UNCHANGED <<poolVars, logVars, reader, hist, nrecv, now, variantVars>>

\* ---- handle_client_task ------------------------------------------------
\* Steps that touch no shared state are taken together with the step before
\* them; a local that is not read again is put back to its initial value.

\* a test that lets the index -1 through
RejectedBelow(index) == index < -1

\* the test after acquire_buffer_pair
Rejected(index) == index < 0

\* a task that goes back into its loop instead of ending
DeletedBackToLoop(l) ==
    [InitTask EXCEPT !.pc = "select", !.client_sock = l.client_sock,
                     !.powerwall_sock = l.powerwall_sock]

\* vTaskDelete(NULL): the task and its locals are gone; the sockets stay as they are
Deleted(l) ==
    [InitTask EXCEPT !.pc = "done", !.client_sock = l.client_sock,
                     !.powerwall_sock = l.powerwall_sock]

\* a release of slot 0 whatever slot the task holds
CallReleaseFirst(l, r) ==
    [InitTask EXCEPT !.pc = "rel_take", !.ret = r,
                     !.rel_arg = 0, !.buffer_index = l.buffer_index,
                     !.client_sock = l.client_sock,
                     !.powerwall_sock = l.powerwall_sock,
                     !.ttl_tried = l.ttl_tried, !.ttl = l.ttl]

\* l with release_buffer_pair(buffer_index) called, to continue at pc r
CallRelease(l, r) ==
    [InitTask EXCEPT !.pc = "rel_take", !.ret = r,
                     !.rel_arg = l.buffer_index, !.buffer_index = l.buffer_index,
                     !.client_sock = l.client_sock,
                     !.powerwall_sock = l.powerwall_sock,
                     !.ttl_tried = l.ttl_tried, !.ttl = l.ttl]

\* the arguments of both log_request calls of handle_client_task
LogArgs(l, w) ==
    [source_ip |-> w, bytes_in |-> l.request_bytes_in,
     bytes_out |-> l.request_bytes_out, ttfb_ms |-> l.current_ttfb_ms,
     result |-> l.request_result]

\* a test that wants bytes in both directions
AnyDataBoth(l) == l.request_bytes_in > 0 /\ l.request_bytes_out > 0

\* the final exchange is logged when any data was exchanged
AnyData(l) == l.request_bytes_in > 0 \/ l.request_bytes_out > 0

\* the cleanup label: log_request of the final exchange when there is one,
\* then release_buffer_pair
Cleanup(l, w) ==
    IF AnyData(l)
    THEN [CallRelease(l, "cleanup_release") EXCEPT !.pc = "log_take",
                                                    !.log_args = LogArgs(l, w)]
    ELSE CallRelease(l, "exit_cleanup")

\* the ways out of the forwarding loop, as the locals at the cleanup label:
\* select() failed (break)
SelectError(l, w) == Cleanup(l, w)

\* the idle time exceeded timeout_ticks (request_result = 1, break)
IdleTimeout(l, w) == Cleanup([l EXCEPT !.request_result = 1], w)

\* an orderly close taken for a read error
RecvClosedAsError(l, w) == Cleanup([l EXCEPT !.request_result = 2], w)

\* recv() returned 0 (break)
RecvClosed(l, w) == Cleanup(l, w)

\* recv() returned a negative value (request_result = 2, break)
RecvError(l, w) == Cleanup([l EXCEPT !.request_result = 2], w)

\* send() failed, or the wait for a writable socket ended without one
\* (goto cleanup)
SendAbort(l, w) == Cleanup(l, w)

\* acquire_buffer_pair has returned: rejection, or socket() and connect()
WorkerAdmit(w) ==
    /\ task[w].pc = "admit"
    /\ \/ /\ Rejected(task[w].buffer_index)
          /\ task' = [task EXCEPT ![w] = Deleted([@ EXCEPT !.client_sock = "closed"])]
       \/ /\ ~Rejected(task[w].buffer_index)
          /\ task' = [task EXCEPT ![w] = CallRelease(@, "exit_socket")]
       \/ /\ ~Rejected(task[w].buffer_index)
          /\ task' = [task EXCEPT ![w] =
                         CallRelease([@ EXCEPT !.powerwall_sock = "created"], "exit_connect")]
       \/ /\ ~Rejected(task[w].buffer_index)
          /\ task' = [task EXCEPT ![w].pc = "select", ![w].ret = "none",
                                  ![w].powerwall_sock = "connected",
                                  ![w].last_activity = now]
    /\ UNCHANGED <<poolVars, logVars, reader, hist, nrecv, now, variantVars>>

\* socket() failed, after release_buffer_pair: close(client_sock)
WorkerExitSocket(w) ==
    /\ task[w].pc = "exit_socket"
    /\ task' = [task EXCEPT ![w] = Deleted([@ EXCEPT !.client_sock = "closed"])]
    /\ UNCHANGED <<poolVars, logVars, reader, hist, nrecv, now, variantVars>>

\* connect() failed, after release_buffer_pair: close both sockets
WorkerExitConnect(w) ==
    /\ task[w].pc = "exit_connect"
    /\ task' = [task EXCEPT ![w] = Deleted([@ EXCEPT !.client_sock = "closed",
                                                      !.powerwall_sock = "closed"])]
    /\ UNCHANGED <<poolVars, logVars, reader, hist, nrecv, now, variantVars>>

\* select() fails
WorkerSelectError(w) ==
    /\ task[w].pc = "select"
    /\ task' = [task EXCEPT ![w] = SelectError(@, w)]
    /\ UNCHANGED <<poolVars, logVars, reader, hist, nrecv, now, variantVars>>

\* select() returns 0 and the idle time exceeds timeout_ticks.  (When it does
\* not, the loop continues and nothing changes.)
WorkerIdleTimeout(w) ==
    /\ task[w].pc = "select"
    /\ task' = [task EXCEPT ![w] = IdleTimeout(@, w)]
    /\ UNCHANGED <<poolVars, logVars, reader, hist, nrecv, now, variantVars>>

\* the previous exchange is over when new client data arrives
ExchangeOver(l) == l.request_bytes_out > 0 /\ ~l.awaiting_first_byte

\* xTaskGetTickCount(): now, as a TickType_t
TickCount == now % UINT32_RANGE

\* a timer that starts again with every chunk of the request
StartTimingAgain(l) ==
    [l EXCEPT !.request_start_time = TickCount, !.awaiting_first_byte = TRUE]

\* the start of a request's timing, unless it is being timed already
StartTiming(l) ==
    IF ~l.awaiting_first_byte
    THEN [l EXCEPT !.request_start_time = TickCount, !.awaiting_first_byte = TRUE]
    ELSE l

\* a TTFB that is cut to 16 bits instead of clamped
TtfbMsTruncated(ticks, start) ==
    LET ttfb_ticks == (ticks - start) % UINT32_RANGE
        ttfb_ms == (ttfb_ticks * portTICK_PERIOD_MS) % UINT32_RANGE
    IN  ttfb_ms % (UINT16_MAX + 1)

\* the TTFB computed at tick count ticks for a request stamped at start
TtfbMs(ticks, start) ==
    LET ttfb_ticks == (ticks - start) % UINT32_RANGE
        ttfb_ms == (ttfb_ticks * portTICK_PERIOD_MS) % UINT32_RANGE
    IN  IF ttfb_ms > UINT16_MAX THEN UINT16_MAX ELSE ttfb_ms

\* the locals after recv(client_sock) returned data: the previous exchange,
\* if it is over, is logged first
ClientData(l, w) ==
    IF ExchangeOver(l)
    THEN [l EXCEPT !.pc = "log_take", !.ret = "client_reset",
                   !.log_args = LogArgs(l, w)]
    ELSE [StartTiming(l) EXCEPT !.pc = "client_send"]

\* select() reports client_sock readable (and maybe powerwall_sock): recv()
WorkerClientRecv(w) ==
    /\ task[w].pc = "select"
    /\ \E fds \in {{"client"}, {"client", "powerwall"}} :
        \/ /\ w \in DataConns
           /\ nrecv < MaxRecv
           /\ \E n \in 1..MaxChunk :
                task' = [task EXCEPT ![w] =
                            ClientData([@ EXCEPT !.read_fds = fds, !.len = n], w)]
           /\ nrecv' = nrecv + 1
        \/ /\ task' = [task EXCEPT ![w] = RecvClosed(@, w)]
           /\ UNCHANGED nrecv
        \/ /\ task' = [task EXCEPT ![w] = RecvError(@, w)]
           /\ UNCHANGED nrecv
    /\ UNCHANGED <<poolVars, logVars, reader, hist, now, variantVars>>

\* a reset that leaves request_bytes_in as it was
WorkerClientResetKeepsIn(w) ==
    /\ task[w].pc = "client_reset"
    /\ task' = [task EXCEPT ![w] =
                   [StartTiming(@) EXCEPT !.pc = "client_send", !.ret = "none",
                                            !.log_args = NoArgs,
                                            !.request_bytes_out = 0,
                                            !.current_ttfb_ms = 0,
                                            !.request_result = 0]]
    /\ UNCHANGED <<poolVars, logVars, reader, hist, nrecv, now, variantVars>>

\* log_request of the previous exchange has returned: reset the counters
WorkerClientReset(w) ==
    /\ task[w].pc = "client_reset"
    /\ task' = [task EXCEPT ![w] =
                   [StartTiming(@) EXCEPT !.pc = "client_send", !.ret = "none",
                                            !.log_args = NoArgs,
                                            !.request_bytes_in = 0,
                                            !.request_bytes_out = 0,
                                            !.current_ttfb_ms = 0,
                                            !.request_result = 0]]
    /\ UNCHANGED <<poolVars, logVars, reader, hist, nrecv, now, variantVars>>

\* a completed chunk that leaves last_activity as it was
ClientChunkDoneNoReset(l) ==
    [l EXCEPT !.request_bytes_in = @ + l.len, !.len = 0, !.total_sent = 0,
              !.client_buffer = <<>>,
              !.pc = IF "powerwall" \in l.read_fds THEN "powerwall_fd" ELSE "select",
              !.read_fds = IF "powerwall" \in l.read_fds THEN @ ELSE {}]

\* the locals after the chunk read from the client is sent completely
ClientChunkDone(l) ==
    [l EXCEPT !.request_bytes_in = @ + l.len, !.len = 0, !.total_sent = 0,
              !.last_activity = now, !.client_buffer = <<>>,
              !.pc = IF "powerwall" \in l.read_fds THEN "powerwall_fd" ELSE "select",
              !.read_fds = IF "powerwall" \in l.read_fds THEN @ ELSE {}]

\* one send() of the loop forwarding client data to the backend.  (EAGAIN
\* followed by a writable socket retries and changes nothing.)
WorkerClientSend(w) ==
    /\ task[w].pc = "client_send"
    /\ \/ \E sent \in 1..(task[w].len - task[w].total_sent) :
            task' = [task EXCEPT ![w] =
                IF @.total_sent + sent < @.len
                THEN [@ EXCEPT !.total_sent = @ + sent]
                ELSE ClientChunkDone(@)]
       \/ task' = [task EXCEPT ![w] = SendAbort(@, w)]
    /\ UNCHANGED <<poolVars, logVars, reader, hist, nrecv, now, variantVars>>

\* the first response bytes of an exchange stop the TTFB timer
StopTiming(l, ms) ==
    IF l.awaiting_first_byte
    THEN [l EXCEPT !.current_ttfb_ms = ms, !.awaiting_first_byte = FALSE]
    ELSE l

\* powerwall_sock is readable (select() reported it alone, or the client
\* side of this iteration is done): recv()
WorkerPowerwallRecv(w) ==
    /\ task[w].pc \in {"select", "powerwall_fd"}
    /\ \/ /\ w \in DataConns
          /\ nrecv < MaxRecv
          /\ \E n \in 1..MaxChunk, ms \in Elapsed :
                task' = [task EXCEPT ![w] =
                    [StopTiming(@, ms) EXCEPT !.len = n, !.read_fds = {},
                                              !.pc = "powerwall_send"]]
          /\ nrecv' = nrecv + 1
       \/ /\ task' = [task EXCEPT ![w] = RecvClosed(@, w)]
          /\ UNCHANGED nrecv
       \/ /\ task' = [task EXCEPT ![w] = RecvError(@, w)]
          /\ UNCHANGED nrecv
    /\ UNCHANGED <<poolVars, logVars, reader, hist, now, variantVars>>

\* the locals after the chunk read from the backend is sent completely
PowerwallChunkDone(l) ==
    [l EXCEPT !.request_bytes_out = @ + l.len, !.len = 0, !.total_sent = 0,
              !.last_activity = now, !.powerwall_buffer = <<>>,
              !.pc = "select"]

\* one send() of the loop forwarding backend data to the client
WorkerPowerwallSend(w) ==
    /\ task[w].pc = "powerwall_send"
    /\ \/ \E sent \in 1..(task[w].len - task[w].total_sent) :
            task' = [task EXCEPT ![w] =
                IF @.total_sent + sent < @.len
                THEN [@ EXCEPT !.total_sent = @ + sent]
                ELSE PowerwallChunkDone(@)]
       \/ task' = [task EXCEPT ![w] = SendAbort(@, w)]
    /\ UNCHANGED <<poolVars, logVars, reader, hist, nrecv, now, variantVars>>

\* log_request of the final exchange has returned: release_buffer_pair
WorkerCleanupRelease(w) ==
    /\ task[w].pc = "cleanup_release"
    /\ task' = [task EXCEPT ![w] = CallRelease(@, "exit_cleanup")]
    /\ UNCHANGED <<poolVars, logVars, reader, hist, nrecv, now, variantVars>>

\* after release_buffer_pair: close both sockets
WorkerExitCleanup(w) ==
    /\ task[w].pc = "exit_cleanup"
    /\ task' = [task EXCEPT ![w] = Deleted([@ EXCEPT !.client_sock = "closed",
                                                      !.powerwall_sock = "closed"])]
    /\ UNCHANGED <<poolVars, logVars, reader, hist, nrecv, now, variantVars>>

\* ---- the proxy ---------------------------------------------------------
\* The acceptor and the connection tasks.  No dashboard request arrives and
\* only the connections of DataConns log, so request_log_mutex is never
\* contended here: the contended log is SpecRing and SpecTtfb.
Next ==
    \E w \in Conns :
        \/ AcceptSpawn(w) \/ AcceptNoTask(w)
        \/ AcqTake(w) \/ AcqTimeout(w) \/ AcqScan(w)
        \/ RelTake(w) \/ RelTimeout(w) \/ RelClear(w)
        \/ LogTake(w) \/ LogWrite(w)
        \/ WorkerAdmit(w) \/ WorkerExitSocket(w) \/ WorkerExitConnect(w)
        \/ WorkerSelectError(w) \/ WorkerIdleTimeout(w)
        \/ WorkerClientRecv(w) \/ WorkerClientReset(w) \/ WorkerClientSend(w)
        \/ WorkerPowerwallRecv(w) \/ WorkerPowerwallSend(w)
        \/ WorkerCleanupRelease(w) \/ WorkerExitCleanup(w)

Spec == Init /\ [][Next]_vars


\* ---- the pool called by one task -----------------------------------------
\* SpecPool: one task calls acquire_buffer_pair and release_buffer_pair one
\* after the other, release_buffer_pair with any index: one it holds, one
\* already free, one out of range.
MaxPoolCalls == 5
PoolCallers == {1}

PoolAcquire(t) ==
    /\ task[t].pc = "none"
    /\ hist.calls < MaxPoolCalls
    /\ task' = [task EXCEPT ![t].pc = "acq_take", ![t].ret = "none"]
    /\ hist' = [hist EXCEPT !.calls = @ + 1]
    /\ UNCHANGED <<poolVars, logVars, reader, nrecv, now, variantVars>>

PoolRelease(t) ==
    /\ task[t].pc = "none"
    /\ hist.calls < MaxPoolCalls
    /\ \E index \in -1..MAX_CONCURRENT_CLIENTS :
        task' = [task EXCEPT ![t].pc = "rel_take", ![t].ret = "none",
                             ![t].rel_arg = index]
    /\ hist' = [hist EXCEPT !.calls = @ + 1]
    /\ UNCHANGED <<poolVars, logVars, reader, nrecv, now, variantVars>>

NextPool ==
    \E t \in PoolCallers :
        \/ PoolAcquire(t) \/ PoolRelease(t)
        \/ AcqTake(t) \/ AcqScan(t)
        \/ RelSkip(t) \/ RelTake(t) \/ RelClear(t)

SpecPool == Init /\ [][NextPool]_vars

\* ---- the request log with a dashboard reader ----------------------------
\* SpecRing: one task calls log_request more often than the ring has entries,
\* while the HTTP server task reads the log.  The n-th call logs an exchange
\* of n bytes each way, so that every entry tells which call wrote it.
RingWriters == {1}
MaxRingCalls == REQUEST_LOG_SIZE + 2

RingArgs(n) ==
    [source_ip |-> 1, bytes_in |-> n, bytes_out |-> n, ttfb_ms |-> 100, result |-> 0]

RingCall(t) ==
    /\ task[t].pc = "none"
    /\ hist.calls < MaxRingCalls
    /\ task' = [task EXCEPT ![t].pc = "log_take", ![t].ret = "none",
                            ![t].log_args = RingArgs(hist.calls + 1)]
    /\ hist' = [hist EXCEPT !.calls = @ + 1]
    /\ UNCHANGED <<poolVars, logVars, reader, nrecv, now, variantVars>>

NextRing ==
    \/ \E t \in RingWriters :
          RingCall(t) \/ LogTake(t) \/ LogTimeout(t) \/ LogWrite(t)
    \/ ReaderStart \/ ReaderTake \/ ReaderTimeout \/ ReaderScan

SpecRing == Init /\ [][NextRing]_vars

\* SpecTtfb: two tasks make a few calls of log_request, with any result and
\* any of the TtfbSamples, while the HTTP server task reads the log.
Callers == {1, 2}
MaxTtfbCalls == 2
TtfbSamples == {0, 100, 200}
Results == {0, 1, 2}

TtfbCall(t) ==
    /\ task[t].pc = "none"
    /\ hist.calls < MaxTtfbCalls
    /\ \E ms \in TtfbSamples, r \in Results :
        task' = [task EXCEPT ![t].pc = "log_take", ![t].ret = "none",
                             ![t].log_args = [source_ip |-> t, bytes_in |-> 1,
                                              bytes_out |-> 1, ttfb_ms |-> ms,
                                              result |-> r]]
    /\ hist' = [hist EXCEPT !.calls = @ + 1]
    /\ UNCHANGED <<poolVars, logVars, reader, nrecv, now, variantVars>>

NextTtfb ==
    \/ \E t \in Callers : TtfbCall(t) \/ LogTake(t) \/ LogTimeout(t) \/ LogWrite(t)
    \/ ReaderStart \/ ReaderTake \/ ReaderTimeout \/ ReaderScan

SpecTtfb == Init /\ [][NextTtfb]_vars

\* ---- properties ----------------------------------------------------------
\* worker w holds a slot: acquire_buffer_pair returned it to w and w's
\* release_buffer_pair has not returned
Holds(w) ==
    /\ task[w].buffer_index >= 0
    /\ task[w].pc \notin {"exit_socket", "exit_connect", "exit_cleanup"}

Holders(i) == {w \in Conns : Holds(w) /\ task[w].buffer_index = i}

\* C1: a slot is held by at most one worker at a time, and its in_use flag
\* is true exactly while a worker holds it.
C1_SlotInUseExactlyWhileHeld ==
    \A i \in Slots :
        /\ Cardinality(Holders(i)) <= 1
        /\ in_use[i] <=> Holders(i) # {}

\* C2: the number of slots in use, and the number of workers whose backend
\* connection is open, never exceed MAX_CONCURRENT_CLIENTS.
C2_OpenBackendsBounded ==
    /\ Cardinality({i \in Slots : in_use[i]}) <= MAX_CONCURRENT_CLIENTS
    /\ Cardinality({w \in Conns : task[w].powerwall_sock = "connected"})
           <= MAX_CONCURRENT_CLIENTS

\* C3: when every slot is in use, acquire_buffer_pair returns -1 to a further
\* connection; a connection that got -1 ends with its client socket closed and
\* no backend socket created; and the request log never holds an entry of a
\* connection that ended without a backend socket.
C3_RejectedWhenPoolFull ==
    /\ [][\A w \in Conns :
            /\ (/\ task[w].pc = "acq_cs"
                /\ \A i \in Slots : in_use[i]
                /\ task'[w] # task[w])
               => (task'[w].pc = "admit" /\ task'[w].buffer_index = -1)
            /\ (/\ task[w].pc = "admit"
                /\ task[w].buffer_index = -1
                /\ task'[w] # task[w])
               => (/\ task'[w].pc = "done"
                   /\ task'[w].client_sock = "closed"
                   /\ task'[w].powerwall_sock = "none")]_vars
    /\ [](\A w \in Conns :
            (task[w].pc \in {"admit", "done"} /\ task[w].powerwall_sock = "none")
            => \A i \in LogIdx : request_log[i].valid => request_log[i].source_ip # w)

\* a connection has been refused by a full pool whose slots are all held
C3_Witness ==
    \E w \in Conns :
        /\ task[w].pc = "done"
        /\ task[w].client_sock = "closed"
        /\ task[w].powerwall_sock = "none"
        /\ \A i \in Slots : in_use[i] /\ Holders(i) # {}
        /\ \A v \in Conns \ {w} : task[v].pc = "select"

\* C4: a worker that acquired a slot has, once release_buffer_pair returned,
\* left the slot free (or lent again to another worker); it ends with both
\* sockets closed; and when every worker has ended no slot is in use.
C4_ExitFreesSlotAndSockets ==
    /\ \A w \in Conns :
        /\ task[w].pc \in {"exit_socket", "exit_connect", "exit_cleanup"}
           => (~in_use[task[w].buffer_index] \/ Holders(task[w].buffer_index) # {})
        /\ task[w].pc = "done"
           => (/\ task[w].client_sock = "closed"
               /\ task[w].powerwall_sock \in {"none", "closed"})
    /\ (\A w \in Conns : task[w].pc \in {"none", "done"})
       => \A i \in Slots : ~in_use[i]

\* C5: when connect() failed, the slot is free when release_buffer_pair
\* returns, so that the next acquire_buffer_pair obtains a slot; and the
\* request log holds no entry of the connection.
C5_ConnectFailureReturnsSlot ==
    /\ [][\A w \in Conns :
            (/\ task[w].pc \in {"rel_take", "rel_cs"}
             /\ task[w].ret = "exit_connect"
             /\ task'[w].pc = "exit_connect")
            => (/\ ~in_use'[task[w].rel_arg]
                /\ AcquireScan(in_use') >= 0)]_vars
    /\ [](\A w \in Conns :
            task[w].pc = "exit_connect"
            => \A i \in LogIdx : request_log[i].valid => request_log[i].source_ip # w)

\* C6: release_buffer_pair of a slot that is already free, or of an index out
\* of range, leaves the pool as it is; the flags stay consistent with the
\* slots lent (whenever the caller is between two calls, in_use[i] holds
\* exactly for the slots acquired and not released since); and an acquire
\* marks exactly one slot, one that was free and not lent.
C6_ReleaseIdempotent ==
    /\ [](\A t \in PoolCallers :
            task[t].pc = "none" => \A i \in Slots : in_use[i] <=> i \in hist.lent)
    /\ [][\A t \in PoolCallers :
            /\ (/\ task[t].pc \in {"rel_take", "rel_cs"}
                /\ task'[t].pc = "none"
                /\ (task[t].rel_arg \notin Slots \/ ~in_use[task[t].rel_arg]))
               => in_use' = in_use
            /\ (/\ task[t].pc = "acq_cs"
                /\ task'[t].pc = "none"
                /\ task'[t].buffer_index >= 0)
               => (/\ task'[t].buffer_index \notin hist.lent
                   /\ ~in_use[task'[t].buffer_index]
                   /\ in_use' = [in_use EXCEPT ![task'[t].buffer_index] = TRUE])]_vars

\* a slot already free was released again, and an acquire has then left
\* exactly one slot in use
C6_Witness ==
    /\ hist.again >= 1
    /\ hist.calls >= 3
    /\ \E t \in PoolCallers :
        /\ task[t].pc = "none"
        /\ hist.lent = {task[t].buffer_index}
    /\ Cardinality({i \in Slots : in_use[i]}) = 1

\* the ring read from the oldest entry to the newest, when all entries are valid
RingOldestFirst ==
    [k \in 1..REQUEST_LOG_SIZE |->
        request_log[(request_log_index + k - 1) % REQUEST_LOG_SIZE]]

Reverse(s) == [k \in 1..Len(s) |-> s[Len(s) + 1 - k]]

Min(a, b) == IF a < b THEN a ELSE b

\* C8: what a reader emits while it holds the mutex is the entries written,
\* most recent first: the j-th emitted is the j-th most recently written, and
\* min(M, REQUEST_LOG_SIZE) entries are emitted after M writes.
C8_ReaderMostRecentFirst ==
    reader.pc = "scan"
    => LET out == ReaderEmit(request_log, request_log_index, 0) IN
        /\ out = Reverse(hist.recorded)
        /\ Len(out) = Min(hist.nrecorded, REQUEST_LOG_SIZE)

\* a reader scans a ring that has wrapped
C8_Witness ==
    /\ reader.pc = "scan"
    /\ hist.nrecorded > REQUEST_LOG_SIZE
    /\ request_log_index \notin {0, 1}

\* an entry that counts as a TTFB sample
IsSampleEntry(e) == e.result = 0 /\ e.ttfb_ms > 0

\* the ttfb_ms of the sample entries of s, in order
RECURSIVE SamplesOf(_)
SamplesOf(s) ==
    IF s = <<>> THEN <<>>
    ELSE (IF IsSampleEntry(Head(s)) THEN <<Head(s).ttfb_ms>> ELSE <<>>)
         \o SamplesOf(Tail(s))

\* the running average after the samples of s: the first sample, then
\* four fifths of the average plus one fifth of the sample, rounded down
RECURSIVE Ema(_)
Ema(s) ==
    IF s = <<>> THEN 0
    ELSE IF Len(s) = 1 THEN s[1]
    ELSE (Ema(SubSeq(s, 1, Len(s) - 1)) * 4 + s[Len(s)]) \div 5

\* C9: avg_ttfb_ms is the running average of the samples written so far and
\* ttfb_sample_count is their number; samples 100 then 200 give 100 then 120.
C9_RunningAverage ==
    LET s == SamplesOf(hist.recorded) IN
        /\ avg_ttfb_ms = Ema(s)
        /\ ttfb_sample_count = Len(s)
        /\ s = <<100>> => avg_ttfb_ms = 100
        /\ s = <<100, 200>> => avg_ttfb_ms = 120

\* samples 100 then 200 were written
C9_Witness ==
    /\ SamplesOf(hist.recorded) = <<100, 200>>
    /\ avg_ttfb_ms = 120
    /\ ttfb_sample_count = 2

\* C10: a log_request whose result is not 0 or whose ttfb_ms is 0 writes its
\* entry and leaves avg_ttfb_ms and ttfb_sample_count as they are; and
\* ttfb_sample_count is the number of entries written with result 0 and
\* ttfb_ms > 0.
C10_NonSampleLeavesAverage ==
    /\ [](ttfb_sample_count =
            Cardinality({k \in 1..Len(hist.recorded) : IsSampleEntry(hist.recorded[k])}))
    /\ [][\A t \in Callers :
            (/\ task[t].pc = "log_cs"
             /\ task'[t].pc = "none"
             /\ ~(task[t].log_args.result = 0 /\ task[t].log_args.ttfb_ms > 0))
            => (/\ avg_ttfb_ms' = avg_ttfb_ms
                /\ ttfb_sample_count' = ttfb_sample_count
                /\ request_log'[request_log_index].valid
                /\ request_log'[request_log_index].result = task[t].log_args.result
                /\ request_log'[request_log_index].ttfb_ms = task[t].log_args.ttfb_ms
                /\ request_log_index' = (request_log_index + 1) % REQUEST_LOG_SIZE)]_vars

\* after a sample, an entry that is no sample was written
C10_Witness ==
    /\ Len(hist.recorded) = 2
    /\ IsSampleEntry(hist.recorded[1])
    /\ ~IsSampleEntry(hist.recorded[2])
    /\ ttfb_sample_count = 1
    /\ avg_ttfb_ms = hist.recorded[1].ttfb_ms


\* the pcs of the forwarding loop of handle_client_task
LoopPcs == {"select", "powerwall_fd", "client_send", "powerwall_send", "client_reset",
            "client_wait", "powerwall_wait"}

\* C12: when a worker leaves the loop because select() failed, recv() failed,
\* send() failed or the wait for a writable socket expired, the entry it logs
\* at exit has result 2 (error) and the byte counts of the exchange.
C12_IoFailureLoggedAsError ==
    [][\A w \in Conns :
        (/\ \/ task[w].pc = "select" /\ task'[w] = SelectError(task[w], w)
            \/ task[w].pc \in {"select", "powerwall_fd"}
               /\ task'[w] = RecvError(task[w], w)
            \/ task[w].pc \in {"client_send", "powerwall_send"}
               /\ task'[w] = SendAbort(task[w], w)
         /\ task'[w].pc = "log_take")
        => (/\ task'[w].log_args.result = 2
            /\ task'[w].log_args.bytes_in = task[w].request_bytes_in
            /\ task'[w].log_args.bytes_out = task[w].request_bytes_out)]_vars

\* C13: when a worker leaves the loop because the idle time exceeded the
\* timeout, it logs an entry with result 1 (timeout), whether or not bytes
\* were exchanged.
C13_IdleTimeoutLogged ==
    [][\A w \in Conns :
        (task[w].pc = "select" /\ task'[w] = IdleTimeout(task[w], w))
        => (/\ task'[w].pc = "log_take"
            /\ task'[w].log_args.result = 1)]_vars

\* C18: when recv() returns 0 the worker goes to the cleanup label with
\* request_result as it was; the exchange in progress, if it has any bytes, is
\* logged with that result and its byte counts, and then the slot is released;
\* inside the loop request_result is 0, so that the entry says success.
C18_PeerCloseKeepsResult ==
    /\ [][\A w \in Conns :
            (/\ task[w].pc \in {"select", "powerwall_fd"}
             /\ task'[w] = RecvClosed(task[w], w))
            => IF task[w].request_bytes_in > 0 \/ task[w].request_bytes_out > 0
               THEN /\ task'[w].pc = "log_take"
                    /\ task'[w].ret = "cleanup_release"
                    /\ task'[w].log_args.result = task[w].request_result
                    /\ task'[w].log_args.bytes_in = task[w].request_bytes_in
                    /\ task'[w].log_args.bytes_out = task[w].request_bytes_out
               ELSE /\ task'[w].pc = "rel_take"
                    /\ task'[w].ret = "exit_cleanup"]_vars
    /\ [](\A w \in Conns : task[w].pc \in LoopPcs => task[w].request_result = 0)

\* a connection that exchanged bytes in both directions has ended and its
\* entry says success
C18_Witness ==
    \E w \in Conns :
        /\ task[w].pc = "done"
        /\ \E i \in LogIdx :
            /\ request_log[i].valid
            /\ request_log[i].source_ip = w
            /\ request_log[i].result = 0
            /\ request_log[i].bytes_in > 0
            /\ request_log[i].bytes_out > 0


\* how far a connection task has come: 0 not started, 1 accepted (no slot
\* yet, or none granted), 2 admitted (slot granted), 3 connected and
\* forwarding, 4 leaving (cleanup and exits) or ended
PhaseOf(l) ==
    IF l.pc = "none" THEN 0
    ELSE IF l.pc \in {"acq_take", "acq_cs"} THEN 1
    ELSE IF l.pc = "admit" THEN (IF l.buffer_index >= 0 THEN 2 ELSE 1)
    ELSE IF l.pc \in LoopPcs \/ (l.pc \in {"log_take", "log_cs"} /\ l.ret = "client_reset")
         THEN 3
    ELSE 4

\* C14: a connection task goes through accepted, admitted, forwarding and
\* leaving in this order, one phase at a time unless it leaves early; it has
\* a backend socket only with a slot granted, is in the forwarding loop only
\* with both sockets open and the backend connected, and changes nothing
\* once it has ended.
C14_PhasesInOrder ==
    /\ [][\A w \in Conns :
            /\ PhaseOf(task'[w]) >= PhaseOf(task[w])
            /\ PhaseOf(task'[w]) <= PhaseOf(task[w]) + 1 \/ PhaseOf(task'[w]) = 4
            /\ task[w].pc = "done" => task'[w] = task[w]
            /\ (task[w].powerwall_sock = "none" /\ task'[w].powerwall_sock # "none")
               => (PhaseOf(task[w]) = 2 /\ in_use[task[w].buffer_index])]_vars
    /\ [](\A w \in Conns :
            /\ task[w].powerwall_sock \in {"created", "connected"}
               => task[w].buffer_index >= 0
            /\ PhaseOf(task[w]) = 3
               => (/\ task[w].powerwall_sock = "connected"
                   /\ task[w].client_sock = "open"
                   /\ Holds(w))
            /\ task[w].pc = "done"
               => (/\ task[w].client_sock = "closed"
                   /\ task[w].powerwall_sock \in {"none", "closed"}))

\* a connection has forwarded bytes both ways, logged them and ended
C14_Witness ==
    \E w \in Conns :
        /\ task[w].pc = "done"
        /\ task[w].powerwall_sock = "closed"
        /\ \E i \in LogIdx :
            /\ request_log[i].valid
            /\ request_log[i].source_ip = w
            /\ request_log[i].bytes_out > 0

\* C19: a step of one connection task leaves the locals and sockets of every
\* other connection task as they are, and the slot another task holds stays
\* in use; and whatever the tasks do, the acceptor can accept the next
\* connection.
C19_ErrorsAreLocal ==
    /\ [][\A w, v \in Conns :
            (v # w /\ task'[w] # task[w])
            => (/\ task'[v] = task[v]
                /\ Holds(v) => in_use'[task[v].buffer_index])]_vars
    /\ [](\A w \in Conns : NextToAccept(w) => ENABLED AcceptSpawn(w))

\* one connection has failed to connect and released its slot while another
\* is forwarding a chunk with its slot in use, and a third can be accepted
C19_Witness ==
    \E w, v, u \in Conns :
        /\ task[w].pc = "exit_connect"
        /\ task[v].pc \in {"client_send", "powerwall_send"}
        /\ in_use[task[v].buffer_index]
        /\ NextToAccept(u)

\* C20: a connection task exists only for a connection that was granted a
\* slot.
C20_WorkerOnlyWithSlot ==
    \A w \in Conns :
        task[w].pc \notin {"none", "done"} => task[w].buffer_index >= 0


\* ---- the boot, one connection and a dashboard reader ----------------------
\* SpecDrop: from the state before init_buffer_pool, where both mutex handles
\* are NULL.  A task calls log_request before the mutexes exist; after
\* init_buffer_pool one connection is served while the HTTP server task reads
\* the log, so that the connection's log_request calls can time out.
InitBoot ==
    /\ in_use = [i \in Slots |-> FALSE]
    /\ buffer_pool_mutex = NoMutex
    /\ request_log = [i \in LogIdx |-> EmptyEntry]
    /\ request_log_index = 0
    /\ request_log_mutex = NoMutex
    /\ avg_ttfb_ms = 0
    /\ ttfb_sample_count = 0
    /\ task = [t \in Conns |-> InitTask]
    /\ reader = InitReader
    /\ hist = InitHist
    /\ nrecv = 0
    /\ now = 0
    /\ reframer = InitReframer
    /\ bridge = InitBridge
    /\ boot = InitBootTasks

\* init_buffer_pool: both mutexes are created, every slot is free and every
\* log entry invalid
InitBufferPool ==
    /\ buffer_pool_mutex = NoMutex
    /\ buffer_pool_mutex' = Free
    /\ request_log_mutex' = Free
    /\ in_use' = [i \in Slots |-> FALSE]
    /\ request_log' = [i \in LogIdx |-> [request_log[i] EXCEPT !.valid = FALSE]]
    /\ UNCHANGED <<request_log_index, avg_ttfb_ms, ttfb_sample_count, task,
                   reader, hist, nrecv, now, variantVars>>

\* the task that calls log_request before init_buffer_pool, and the connection
EarlyCallers == {2}
DropConns == {1}

EarlyCall(t) ==
    /\ request_log_mutex = NoMutex
    /\ TtfbCall(t)

\* tcp_server_task is started after init_buffer_pool
DropAccept(w) ==
    /\ buffer_pool_mutex # NoMutex
    /\ AcceptSpawn(w)

NextDrop ==
    \/ InitBufferPool
    \/ \E t \in EarlyCallers : EarlyCall(t) \/ LogNoMutex(t)
    \/ \E w \in DropConns :
        \/ DropAccept(w)
        \/ AcqTake(w) \/ AcqScan(w) \/ RelTake(w) \/ RelClear(w)
        \/ LogTake(w) \/ LogTimeout(w) \/ LogWrite(w)
        \/ WorkerAdmit(w) \/ WorkerExitSocket(w) \/ WorkerExitConnect(w)
        \/ WorkerSelectError(w) \/ WorkerIdleTimeout(w)
        \/ WorkerClientRecv(w) \/ WorkerClientReset(w) \/ WorkerClientSend(w)
        \/ WorkerPowerwallRecv(w) \/ WorkerPowerwallSend(w)
        \/ WorkerCleanupRelease(w) \/ WorkerExitCleanup(w)
    \/ ReaderStart \/ ReaderNoMutex \/ ReaderTake \/ ReaderTimeout \/ ReaderScan

SpecDrop == InitBoot /\ [][NextDrop]_vars

\* C11: a log_request call that returns without having taken the mutex (the
\* take timed out, or the mutex is not created) leaves the ring, the index,
\* the average and the sample count as they are, and its caller goes on
\* where a call that wrote would go on, with the same locals; a connection
\* task ends with its sockets closed and its slot free whether or not its
\* records were dropped.
C11_DroppedRecordChangesNothing ==
    /\ [][\A t \in Conns :
            (task[t].pc = "log_take" /\ task'[t].pc \notin {"log_take", "log_cs"})
            => (/\ request_log' = request_log
                /\ request_log_index' = request_log_index
                /\ avg_ttfb_ms' = avg_ttfb_ms
                /\ ttfb_sample_count' = ttfb_sample_count
                /\ task'[t] = [task[t] EXCEPT !.pc = task[t].ret])]_vars
    /\ [](\A w \in DropConns :
            task[w].pc = "done"
            => (/\ task[w].client_sock = "closed"
                /\ task[w].powerwall_sock \in {"none", "closed"}
                /\ \A i \in Slots : ~in_use[i]))

\* the call made before the mutex existed was dropped, a record of the
\* connection was dropped while the reader held the mutex, and the
\* connection has ended
C11_Witness ==
    /\ \E k \in 1..Len(hist.called) : hist.called[k].source_ip \in EarlyCallers
    /\ \E k \in 1..Len(hist.called) :
        /\ hist.called[k].source_ip \in DropConns
        /\ \A j \in 1..Len(hist.recorded) : hist.recorded[j] # hist.called[k]
    /\ \A j \in 1..Len(hist.recorded) : hist.recorded[j].source_ip \notin EarlyCallers
    /\ \A w \in DropConns : task[w].pc = "done"


\* ---- one connection with the clock and the bytes on the wire --------------
\* SpecFwd: one connection from accept to vTaskDelete, with the tick count
\* advancing in the blocking calls of the forwarding loop (select() for
\* readability, select() for writability) and with the content of both
\* buffers.  One tick is one polling slice of select() (100 ms).
SelectSlice == 1
\* pdMS_TO_TICKS(PROXY_TIMEOUT_MS) and the 5 s of write_timeout, in slices
timeout_ticks == 3
WriteWait == 2
MaxNow == 6
MaxFwdChunk == 2
MaxFwdRecv == 2
MaxWaits == 2
FwdConns == {1}
Bytes == {0, 1}
\* what one recv() can return
Chunks == UNION {[1..n -> Bytes] : n \in 1..MaxFwdChunk}

\* the bytes send(sock, buffer + total_sent, len - total_sent) accepted
SendSliceFromStart(buffer, total_sent, sent) == SubSeq(buffer, 1, sent)
SendSlice(buffer, total_sent, sent) == SubSeq(buffer, total_sent + 1, total_sent + sent)

\* send() returned -1 with EAGAIN or EWOULDBLOCK: select() for writability
WouldBlock(l) ==
    [l EXCEPT !.pc = IF l.pc = "client_send" THEN "client_wait" ELSE "powerwall_wait"]

\* the socket became writable: continue, the send loop sends again
Writable(l) ==
    [l EXCEPT !.pc = IF l.pc = "client_wait" THEN "client_send" ELSE "powerwall_send"]

\* an expired wait that sends again
WriteExpiredRetries(l, w) == Writable(l)

\* the wait for writability returned 0 or -1: goto cleanup
WriteExpired(l, w) == SendAbort(l, w)

\* the idle check of a polling cycle without readiness, at tick t
IdleCheck(l, w, t) ==
    IF t - l.last_activity > timeout_ticks THEN IdleTimeout(l, w) ELSE l

\* select() returns 0 after its 100 ms
FwdSelectIdle(w) ==
    /\ task[w].pc = "select"
    /\ now + SelectSlice <= MaxNow
    /\ now' = now + SelectSlice
    /\ task' = [task EXCEPT ![w] = IdleCheck(@, w, now')]
    /\ UNCHANGED <<poolVars, logVars, reader, hist, nrecv, variantVars>>

\* select() reports client_sock readable before its 100 ms are over: recv()
FwdClientRecv(w) ==
    /\ task[w].pc = "select"
    /\ \E fds \in {{"client"}, {"client", "powerwall"}} :
        \/ /\ nrecv < MaxFwdRecv
           /\ \E c \in Chunks :
                /\ task' = [task EXCEPT ![w] =
                             ClientData([@ EXCEPT !.read_fds = fds, !.len = Len(c),
                                                  !.client_buffer = c], w)]
                /\ hist' = [hist EXCEPT !.rd.client = @ \o c, !.last_io = now]
           /\ nrecv' = nrecv + 1
        \/ /\ task' = [task EXCEPT ![w] = RecvClosed(@, w)]
           /\ UNCHANGED <<hist, nrecv>>
        \/ /\ task' = [task EXCEPT ![w] = RecvError(@, w)]
           /\ UNCHANGED <<hist, nrecv>>
    /\ UNCHANGED <<poolVars, logVars, reader, now, variantVars>>

\* one send() of the loop forwarding client_buffer to the backend
FwdClientSend(w) ==
    /\ task[w].pc = "client_send"
    /\ \/ \E sent \in 1..(task[w].len - task[w].total_sent) :
            /\ hist' = [hist EXCEPT
                          !.wr.client = @ \o SendSlice(task[w].client_buffer,
                                                       task[w].total_sent, sent),
                          !.last_io = now,
                          !.fwd.client = IF task[w].total_sent + sent < task[w].len
                                     THEN @ ELSE @ + task[w].len]
            /\ task' = [task EXCEPT ![w] =
                          IF @.total_sent + sent < @.len
                          THEN [@ EXCEPT !.total_sent = @ + sent]
                          ELSE ClientChunkDone(@)]
       \/ /\ hist.retries + hist.expired < MaxWaits
          /\ task' = [task EXCEPT ![w] = WouldBlock(@)]
          /\ UNCHANGED hist
       \/ /\ task' = [task EXCEPT ![w] = SendAbort(@, w)]
          /\ UNCHANGED hist
    /\ UNCHANGED <<poolVars, logVars, reader, nrecv, now, variantVars>>

\* select() for writability, up to 5 s, in either direction
FwdWait(w) ==
    /\ task[w].pc \in {"client_wait", "powerwall_wait"}
    /\ \/ \E d \in 0..(WriteWait - 1) :
            /\ now + d <= MaxNow
            /\ now' = now + d
            /\ task' = [task EXCEPT ![w] = Writable(@)]
            /\ hist' = [hist EXCEPT !.retries = @ + 1]
       \/ /\ now + WriteWait <= MaxNow
          /\ now' = now + WriteWait
          /\ task' = [task EXCEPT ![w] = WriteExpired(@, w)]
          /\ hist' = [hist EXCEPT !.expired = @ + 1]
    /\ UNCHANGED <<poolVars, logVars, reader, nrecv, variantVars>>

\* powerwall_sock is readable: recv()
FwdPowerwallRecv(w) ==
    /\ task[w].pc \in {"select", "powerwall_fd"}
    /\ \/ /\ nrecv < MaxFwdRecv
          /\ \E c \in Chunks :
                /\ task' = [task EXCEPT ![w] =
                    [StopTiming(@, TtfbMs(TickCount, @.request_start_time))
                        EXCEPT !.len = Len(c), !.read_fds = {},
                                              !.powerwall_buffer = c,
                                              !.pc = "powerwall_send"]]
                /\ hist' = [hist EXCEPT !.rd.powerwall = @ \o c, !.last_io = now]
          /\ nrecv' = nrecv + 1
       \/ /\ task' = [task EXCEPT ![w] = RecvClosed(@, w)]
          /\ UNCHANGED <<hist, nrecv>>
       \/ /\ task' = [task EXCEPT ![w] = RecvError(@, w)]
          /\ UNCHANGED <<hist, nrecv>>
    /\ UNCHANGED <<poolVars, logVars, reader, now, variantVars>>

\* one send() of the loop forwarding powerwall_buffer to the client
FwdPowerwallSend(w) ==
    /\ task[w].pc = "powerwall_send"
    /\ \/ \E sent \in 1..(task[w].len - task[w].total_sent) :
            /\ hist' = [hist EXCEPT
                          !.wr.powerwall = @ \o SendSlice(task[w].powerwall_buffer,
                                                          task[w].total_sent, sent),
                          !.last_io = now,
                          !.fwd.powerwall = IF task[w].total_sent + sent < task[w].len
                                     THEN @ ELSE @ + task[w].len]
            /\ task' = [task EXCEPT ![w] =
                          IF @.total_sent + sent < @.len
                          THEN [@ EXCEPT !.total_sent = @ + sent]
                          ELSE PowerwallChunkDone(@)]
       \/ /\ hist.retries + hist.expired < MaxWaits
          /\ task' = [task EXCEPT ![w] = WouldBlock(@)]
          /\ UNCHANGED hist
       \/ /\ task' = [task EXCEPT ![w] = SendAbort(@, w)]
          /\ UNCHANGED hist
    /\ UNCHANGED <<poolVars, logVars, reader, nrecv, now, variantVars>>

NextFwd ==
    \E w \in FwdConns :
        \/ AcceptSpawn(w)
        \/ AcqTake(w) \/ AcqScan(w) \/ RelTake(w) \/ RelClear(w)
        \/ LogTake(w) \/ LogWrite(w)
        \/ WorkerAdmit(w) \/ WorkerExitSocket(w) \/ WorkerExitConnect(w)
        \/ WorkerSelectError(w) \/ FwdSelectIdle(w)
        \/ FwdClientRecv(w) \/ WorkerClientReset(w) \/ FwdClientSend(w)
        \/ FwdPowerwallRecv(w) \/ FwdPowerwallSend(w) \/ FwdWait(w)
        \/ WorkerCleanupRelease(w) \/ WorkerExitCleanup(w)

SpecFwd == Init /\ [][NextFwd]_vars


\* C15: last_activity is set to the tick count after every chunk forwarded
\* completely, in either direction, and equals the tick of the last byte moved
\* whenever the worker polls; every select() that times out checks the idle
\* time: it ends the loop exactly when more than timeout_ticks have passed
\* since last_activity, which is then at most timeout_ticks plus one slice
\* ago, and otherwise changes nothing; so a polling worker has never been
\* idle for more than timeout_ticks.
C15_IdleCheckedEveryPoll ==
    /\ [][\A w \in FwdConns :
            /\ (/\ task[w].pc \in {"client_send", "powerwall_send"}
                /\ task'[w].pc \in {"select", "powerwall_fd"})
               => task'[w].last_activity = now'
            /\ (task[w].pc = "select" /\ now' # now)
               => (/\ now' = now + SelectSlice
                   /\ (task'[w].pc \notin LoopPcs)
                        <=> (now' - hist.last_io > timeout_ticks)
                   /\ (task'[w].pc \notin LoopPcs)
                        => (now' - hist.last_io <= timeout_ticks + SelectSlice)
                   /\ (task'[w].pc \in LoopPcs) => (task'[w] = task[w]))]_vars
    /\ [](\A w \in FwdConns :
            task[w].pc = "select"
            => (/\ task[w].last_activity = hist.last_io
                /\ now - task[w].last_activity <= timeout_ticks))

\* a connection that forwarded a request and its response after the first
\* tick, and was ended by the idle check timeout_ticks + 1 slices later,
\* logged as a timeout
C15_Witness ==
    \E w \in FwdConns :
        /\ task[w].pc = "done"
        /\ hist.wr.client # <<>>
        /\ hist.wr.powerwall # <<>>
        /\ hist.last_io > 0
        /\ now = hist.last_io + timeout_ticks + SelectSlice
        /\ \E i \in LogIdx : request_log[i].valid /\ request_log[i].result = 1

\* C15 as stated: no worker stays in the forwarding loop once more than
\* timeout_ticks plus one slice have passed since last_activity
C15_TerminatedWithinOneSlice ==
    \A w \in FwdConns :
        task[w].pc \in LoopPcs
        => now - task[w].last_activity <= timeout_ticks + SelectSlice


IsPrefix(s, t) == Len(s) <= Len(t) /\ SubSeq(t, 1, Len(s)) = s

\* the part of a chunk of len bytes not sent yet
Unsent(buffer, l) == SubSeq(buffer, l.total_sent + 1, l.len)

\* C16: in each direction the bytes written to the destination socket are at
\* every moment a prefix of the bytes read from the source socket; while a
\* chunk is being sent, through partial sends and waits for a writable
\* socket, what was read is what was written followed by the unsent rest of
\* the buffer, and between chunks what was read has been written.
C16_WrittenIsPrefixOfRead ==
    /\ IsPrefix(hist.wr.client, hist.rd.client)
    /\ IsPrefix(hist.wr.powerwall, hist.rd.powerwall)
    /\ \A w \in FwdConns :
        /\ task[w].pc \in {"client_send", "client_wait"}
           => hist.rd.client = hist.wr.client \o Unsent(task[w].client_buffer, task[w])
        /\ task[w].pc \in {"powerwall_send", "powerwall_wait"}
           => hist.rd.powerwall = hist.wr.powerwall \o Unsent(task[w].powerwall_buffer, task[w])
        /\ task[w].pc \in {"select", "powerwall_fd", "powerwall_send", "powerwall_wait"}
           => hist.rd.client = hist.wr.client
        /\ task[w].pc \in {"select", "powerwall_fd", "client_send", "client_wait"}
           => hist.rd.powerwall = hist.wr.powerwall

\* a request of two different bytes has reached the backend after a wait for
\* a writable socket, and a response of two different bytes has been sent in
\* part
C16_Witness ==
    \E w \in FwdConns :
        /\ task[w].pc = "powerwall_send"
        /\ task[w].powerwall_buffer = <<1, 0>>
        /\ task[w].total_sent = 1
        /\ hist.wr.powerwall = <<1>>
        /\ hist.wr.client = <<0, 1>>
        /\ hist.retries > 0

SendPcs == {"client_send", "powerwall_send"}
WaitPcs == {"client_wait", "powerwall_wait"}

\* C17: a send that would block is followed by a wait of at most WriteWait
\* for the destination; a wait that ends earlier sends again from the same
\* place of the same chunk, a wait that lasts WriteWait ends the loop; no
\* data is read while a chunk is being sent or waited for, and none is read
\* or written once the loop is left.  A send that fails otherwise, and a
\* recv or a select for readability that fails, end the loop: every step of
\* the loop moves bytes, enters the wait, ends the loop, or is a poll that
\* found nothing.
C17_WouldBlockWaitsThenRetries ==
    [][\A w \in FwdConns :
        /\ task[w].pc \in WaitPcs
           => (/\ now' - now <= WriteWait
               /\ \/ /\ now' - now < WriteWait
                     /\ task'[w] = [task[w] EXCEPT !.pc =
                                      IF task[w].pc = "client_wait" THEN "client_send"
                                      ELSE "powerwall_send"]
                     /\ hist'.rd = hist.rd /\ hist'.wr = hist.wr
                  \/ PhaseOf(task'[w]) = 4
               /\ (now' - now = WriteWait) => PhaseOf(task'[w]) = 4)
        /\ task[w].pc \in SendPcs \cup WaitPcs => hist'.rd = hist.rd
        /\ task[w].pc = "client_send"
           => \/ Len(hist'.wr.client) > Len(hist.wr.client)
              \/ task'[w] = [task[w] EXCEPT !.pc = "client_wait"]
              \/ PhaseOf(task'[w]) = 4
        /\ task[w].pc = "powerwall_send"
           => \/ Len(hist'.wr.powerwall) > Len(hist.wr.powerwall)
              \/ task'[w] = [task[w] EXCEPT !.pc = "powerwall_wait"]
              \/ PhaseOf(task'[w]) = 4
        /\ task[w].pc \in {"select", "powerwall_fd"}
           => \/ Len(hist'.rd.client) + Len(hist'.rd.powerwall)
                    > Len(hist.rd.client) + Len(hist.rd.powerwall)
              \/ task'[w] = task[w] /\ now' = now + SelectSlice
              \/ PhaseOf(task'[w]) = 4
        /\ PhaseOf(task[w]) = 4
           => (hist'.rd = hist.rd /\ hist'.wr = hist.wr /\ now' = now)]_vars

\* a connection ended by an expired wait, after an earlier wait of the same
\* connection had ended with a writable socket: part of what was read was
\* never written
C17_Witness ==
    \E w \in FwdConns :
        /\ task[w].pc = "done"
        /\ hist.retries > 0
        /\ hist.expired > 0
        /\ Len(hist.wr.client) = 1
        /\ Len(hist.rd.client) = 2
        /\ now = hist.last_io + WriteWait


\* connection w is the next one the listening socket hands out
Pending(w) ==
    /\ task[w].client_sock = "none"
    /\ \A v \in Conns : v < w => task[v].client_sock # "none"

\* C21: whatever the connection tasks are doing, the acceptor can take the
\* next pending connection, with either outcome of xTaskCreate; its step
\* changes nothing but that connection (no slot, no mutex, no log, no other
\* task): it leaves either a started task with the socket open or, when the
\* task could not be created, no task and the socket closed, and in both
\* cases the connection after it is pending.
C21_AcceptorNeverWaits ==
    /\ [](\A w \in Conns :
            Pending(w) => (ENABLED AcceptSpawn(w) /\ ENABLED AcceptNoTask(w)))
    /\ [][\A w \in Conns :
            (task[w].client_sock = "none" /\ task'[w].client_sock # "none")
            => (/\ UNCHANGED <<poolVars, logVars, reader>>
                /\ \A v \in Conns \ {w} : task'[v] = task[v]
                /\ \/ task'[w] = [InitTask EXCEPT !.pc = "acq_take", !.ret = "admit",
                                                  !.client_sock = "open"]
                   \/ task'[w] = [InitTask EXCEPT !.client_sock = "closed"]
                /\ (w + 1 \in Conns) => Pending(w + 1)')]_vars

\* the first connection was closed because no task could be created, the
\* second holds the pool mutex inside acquire_buffer_pair, and the third is
\* pending
C21_Witness ==
    \E w, v, u \in Conns :
        /\ task[w].client_sock = "closed" /\ task[w].pc = "none"
        /\ task[v].pc = "acq_cs" /\ buffer_pool_mutex = v
        /\ Pending(u)


\* ---- two connections, both mutexes and a dashboard reader ------------------
\* SpecLocks: two connections are served while the HTTP server task runs its
\* dashboard handlers; every take of a mutex can time out.
LockConns == {1, 2}

\* the steps of connection task w
WorkerStep(w) ==
    \/ AcqTake(w) \/ AcqTimeout(w) \/ AcqScan(w)
    \/ RelTake(w) \/ RelTimeout(w) \/ RelClear(w)
    \/ LogTake(w) \/ LogTimeout(w) \/ LogWrite(w)
    \/ WorkerAdmit(w) \/ WorkerExitSocket(w) \/ WorkerExitConnect(w)
    \/ WorkerSelectError(w) \/ WorkerIdleTimeout(w)
    \/ WorkerClientRecv(w) \/ WorkerClientReset(w) \/ WorkerClientSend(w)
    \/ WorkerPowerwallRecv(w) \/ WorkerPowerwallSend(w)
    \/ WorkerCleanupRelease(w) \/ WorkerExitCleanup(w)

\* the steps of the HTTP server task
ReaderStep == ReaderStart \/ ReaderTake \/ ReaderTimeout \/ ReaderScan

NextLocks ==
    \/ \E w \in LockConns : AcceptSpawn(w) \/ AcceptNoTask(w) \/ WorkerStep(w)
    \/ ReaderStep

SpecLocks == Init /\ [][NextLocks]_vars


\* the tasks that take mutexes
Tasks == LockConns \cup {Httpd}

\* C22: no task holds both mutexes; a mutex is taken only when it is free
\* and is given back by a step of its holder, which its holder can always
\* take (the holder waits for nothing inside the critical section); and in
\* every reachable state each connection task that has not ended and the
\* HTTP server task have a step to take, so no state is a deadlock.
C22_NoDeadlockBetweenMutexes ==
    /\ [](/\ \A t \in Tasks : ~(buffer_pool_mutex = t /\ request_log_mutex = t)
          /\ buffer_pool_mutex \in LockConns \cup {Free}
          /\ request_log_mutex \in Tasks \cup {Free}
          /\ \A w \in LockConns :
                /\ buffer_pool_mutex = w
                   => (task[w].pc \in {"acq_cs", "rel_cs"}
                       /\ ENABLED (AcqScan(w) \/ RelClear(w)))
                /\ request_log_mutex = w
                   => (task[w].pc = "log_cs" /\ ENABLED LogWrite(w))
                /\ task[w].pc \notin {"none", "done"} => ENABLED WorkerStep(w)
          /\ request_log_mutex = Httpd => (reader.pc = "scan" /\ ENABLED ReaderScan)
          /\ ENABLED ReaderStep)
    /\ [][/\ buffer_pool_mutex' # buffer_pool_mutex
             => \/ buffer_pool_mutex = Free /\ buffer_pool_mutex' \in LockConns
                \/ /\ buffer_pool_mutex \in LockConns /\ buffer_pool_mutex' = Free
                   /\ task'[buffer_pool_mutex] # task[buffer_pool_mutex]
          /\ request_log_mutex' # request_log_mutex
             => \/ request_log_mutex = Free /\ request_log_mutex' \in Tasks
                \/ /\ request_log_mutex \in LockConns /\ request_log_mutex' = Free
                   /\ task'[request_log_mutex] # task[request_log_mutex]
                \/ /\ request_log_mutex = Httpd /\ request_log_mutex' = Free
                   /\ reader' # reader]_vars

\* one connection task holds the pool mutex while the HTTP server task holds
\* the log mutex and the other connection task is at its take of the log mutex
C22_Witness ==
    \E w, v \in LockConns :
        /\ buffer_pool_mutex = w
        /\ request_log_mutex = Httpd
        /\ task[v].pc = "log_take"


\* C23: the ring, request_log_index, avg_ttfb_ms and ttfb_sample_count are
\* written and read only by a task that holds request_log_mutex, and the
\* in_use flags only by a task that holds buffer_pool_mutex.
C23_SharedStateUnderMutex ==
    /\ [][/\ <<request_log, request_log_index, avg_ttfb_ms, ttfb_sample_count>>'
                # <<request_log, request_log_index, avg_ttfb_ms, ttfb_sample_count>>
             => (request_log_mutex \in LockConns
                 /\ task[request_log_mutex].pc = "log_cs")
          /\ in_use' # in_use
             => (buffer_pool_mutex \in LockConns
                 /\ task[buffer_pool_mutex].pc \in {"acq_cs", "rel_cs"})
          /\ (reader.pc = "idle" /\ reader'.pc = "take")
             => request_log_mutex = Httpd]_vars
    /\ [](reader.pc = "scan" => request_log_mutex = Httpd)


\* ---- the TTFB measurement at any tick ---------------------------------------
\* SpecClamp: the timing statements of handle_client_task (request start,
\* first response bytes) applied by one task while the tick count advances
\* by any of ClampSteps between them, up to past the range of TickType_t.
ClampCallers == {1}
ClampSteps == {1, 2, 3, 40, 4000}
MaxClampSteps == 4

\* time passes
ClampElapse ==
    /\ hist.calls < MaxClampSteps
    /\ \E d \in ClampSteps : now' = now + d
    /\ hist' = [hist EXCEPT !.calls = @ + 1]
    /\ UNCHANGED <<poolVars, logVars, task, reader, nrecv, variantVars>>

\* client bytes arrive
ClampStart(t) ==
    /\ task[t].pc = "none"
    /\ task' = [task EXCEPT ![t] = StartTiming(@)]
    /\ hist' = [hist EXCEPT !.started = IF task[t].awaiting_first_byte THEN @ ELSE now]
    /\ UNCHANGED <<poolVars, logVars, reader, nrecv, now, variantVars>>

\* backend bytes arrive
ClampStop(t) ==
    /\ task[t].pc = "none"
    /\ task' = [task EXCEPT ![t] =
                  StopTiming(@, TtfbMs(TickCount, @.request_start_time))]
    /\ UNCHANGED <<poolVars, logVars, reader, hist, nrecv, now, variantVars>>

NextClamp == ClampElapse \/ \E t \in ClampCallers : ClampStart(t) \/ ClampStop(t)

SpecClamp == Init /\ [][NextClamp]_vars

\* the milliseconds between the request start and now
ElapsedMs == (now - hist.started) * portTICK_PERIOD_MS

\* C24 (as amended): the TTFB set at the first response bytes is the elapsed
\* milliseconds as a 32-bit value, clamped to 16 bits: min(elapsed_ms mod
\* 2^32, 65535); it equals min(elapsed_ms, 65535) for every elapsed time
\* below 2^32 ms, wherever the tick count stood at the request start.
C24_TtfbClampedBelowWrap ==
    [][\A t \in ClampCallers :
        (task[t].awaiting_first_byte /\ ~task'[t].awaiting_first_byte)
        => (/\ task'[t].current_ttfb_ms = Min(ElapsedMs % UINT32_RANGE, UINT16_MAX)
            /\ ElapsedMs < UINT32_RANGE
               => task'[t].current_ttfb_ms = Min(ElapsedMs, UINT16_MAX))]_vars

\* a TTFB was clamped for a request that began just before the tick count
\* wrapped and was answered after it
C24_Witness ==
    \E t \in ClampCallers :
        /\ ~task[t].awaiting_first_byte
        /\ task[t].current_ttfb_ms = UINT16_MAX
        /\ hist.started < UINT32_RANGE
        /\ now > UINT32_RANGE
        /\ ElapsedMs > UINT16_MAX
        /\ ElapsedMs < UINT32_RANGE

\* C24: the TTFB set at the first response bytes is min(elapsed_ms, 65535)
\* for every elapsed time.
C24_TtfbClamped ==
    [][\A t \in ClampCallers :
        (task[t].awaiting_first_byte /\ ~task'[t].awaiting_first_byte)
        => task'[t].current_ttfb_ms = Min(ElapsedMs, UINT16_MAX)]_vars


SpecLive == SpecLocks /\ \A w \in LockConns : WF_vars(WorkerStep(w))

\* C26: every connection task that was started ends, and when all have ended
\* no slot is in use.
C26_WorkersEndAndFreeSlots ==
    /\ \A w \in LockConns : (task[w].pc # "none") ~> (task[w].pc = "done")
    /\ []((\A w \in LockConns : task[w].pc \in {"none", "done"})
            => \A i \in Slots : ~in_use[i])

\* ---- C27 ----------------------------------------------------------------
\* C27: acquire_buffer_pair returns -1 in two cases, when its take of
\* buffer_pool_mutex times out and when the scan finds every slot in use, and
\* in neither case does an in_use flag change; a scan that finds a free slot
\* returns its index; and the caller that got -1 closes the client socket and
\* ends without a backend socket and without touching the pool or the log.
C27_AcquireFailsWithoutMarking ==
    [][\A w \in Conns :
        /\ (task[w].pc = "acq_take" /\ task'[w] # task[w])
           => /\ in_use' = in_use
              /\ \/ task'[w].pc = "acq_cs" /\ buffer_pool_mutex' = w
                 \/ /\ task'[w].pc = "admit"
                    /\ task'[w].buffer_index = -1
                    /\ buffer_pool_mutex \notin {Free, w}
                    /\ buffer_pool_mutex' = buffer_pool_mutex
        /\ (task[w].pc = "acq_cs" /\ task'[w] # task[w])
           => /\ task'[w].pc = "admit"
              /\ (task'[w].buffer_index = -1) <=> (\A i \in Slots : in_use[i])
              /\ (task'[w].buffer_index = -1) => in_use' = in_use
              /\ (task'[w].buffer_index # -1)
                 => /\ task'[w].buffer_index \in Slots
                    /\ ~in_use[task'[w].buffer_index]
        /\ (task[w].pc = "admit" /\ task[w].buffer_index = -1 /\ task'[w] # task[w])
           => /\ task'[w].pc = "done"
              /\ task'[w].client_sock = "closed"
              /\ task'[w].powerwall_sock = "none"
              /\ in_use' = in_use
              /\ request_log' = request_log]_vars

\* a connection got -1 from a timed-out take while a slot of the pool was free
C27_Witness ==
    \E w \in Conns :
        /\ task[w].pc = "admit"
        /\ task[w].buffer_index = -1
        /\ \E i \in Slots : ~in_use[i]

\* ---- the backend socket, option by option --------------------------------
\* SpecTtl: the tasks of two connections, with the admission of
\* handle_client_task taken call by call: socket(), setsockopt(IP_TTL),
\* connect().  ttl_tried: setsockopt(IP_TTL) has returned on the backend
\* socket; ttl: the socket's IP_TTL, 0 while it is the stack's default.
TTL_VALUE == 64
TtlConns == {1, 2}

\* a socket() after which the task goes straight to connect()
WorkerSocketSkipsTtl(w) ==
    /\ task[w].pc = "admit"
    /\ \/ /\ Rejected(task[w].buffer_index)
          /\ task' = [task EXCEPT ![w] = Deleted([@ EXCEPT !.client_sock = "closed"])]
       \/ /\ ~Rejected(task[w].buffer_index)
          /\ task' = [task EXCEPT ![w] = CallRelease(@, "exit_socket")]
       \/ /\ ~Rejected(task[w].buffer_index)
          /\ task' = [task EXCEPT ![w].pc = "connect", ![w].ret = "none",
                                  ![w].powerwall_sock = "created"]
    /\ UNCHANGED <<poolVars, logVars, reader, hist, nrecv, now, variantVars>>

\* acquire_buffer_pair has returned: rejection, or socket(), which fails or
\* creates the backend socket
WorkerSocket(w) ==
    /\ task[w].pc = "admit"
    /\ \/ /\ Rejected(task[w].buffer_index)
          /\ task' = [task EXCEPT ![w] = Deleted([@ EXCEPT !.client_sock = "closed"])]
       \/ /\ ~Rejected(task[w].buffer_index)
          /\ task' = [task EXCEPT ![w] = CallRelease(@, "exit_socket")]
       \/ /\ ~Rejected(task[w].buffer_index)
          /\ task' = [task EXCEPT ![w].pc = "set_ttl", ![w].ret = "none",
                                  ![w].powerwall_sock = "created"]
    /\ UNCHANGED <<poolVars, logVars, reader, hist, nrecv, now, variantVars>>

\* setsockopt(powerwall_sock, IPPROTO_IP, IP_TTL, TTL_VALUE) succeeds or fails
\* (a warning is logged), then the receive timeouts are set: on to connect()
WorkerSetTtl(w) ==
    /\ task[w].pc = "set_ttl"
    /\ \E ok \in BOOLEAN :
          task' = [task EXCEPT ![w].pc = "connect", ![w].ttl_tried = TRUE,
                                  ![w].ttl = IF ok THEN TTL_VALUE ELSE @]
    /\ UNCHANGED <<poolVars, logVars, reader, hist, nrecv, now, variantVars>>

\* connect() fails (release_buffer_pair, then both sockets are closed) or
\* succeeds (both sockets are made non-blocking and the loop begins)
WorkerConnect(w) ==
    /\ task[w].pc = "connect"
    /\ \/ task' = [task EXCEPT ![w] = CallRelease(@, "exit_connect")]
       \/ task' = [task EXCEPT ![w].pc = "select",
                               ![w].powerwall_sock = "connected",
                               ![w].last_activity = now]
    /\ UNCHANGED <<poolVars, logVars, reader, hist, nrecv, now, variantVars>>

NextTtl ==
    \E w \in TtlConns :
        \/ AcceptSpawn(w) \/ AcceptNoTask(w)
        \/ AcqTake(w) \/ AcqTimeout(w) \/ AcqScan(w)
        \/ RelTake(w) \/ RelTimeout(w) \/ RelClear(w)
        \/ LogTake(w) \/ LogWrite(w)
        \/ WorkerSocket(w) \/ WorkerSetTtl(w) \/ WorkerConnect(w)
        \/ WorkerExitSocket(w) \/ WorkerExitConnect(w)
        \/ WorkerSelectError(w) \/ WorkerIdleTimeout(w)
        \/ WorkerClientRecv(w) \/ WorkerClientReset(w) \/ WorkerClientSend(w)
        \/ WorkerPowerwallRecv(w) \/ WorkerPowerwallSend(w)
        \/ WorkerCleanupRelease(w) \/ WorkerExitCleanup(w)

SpecTtl == Init /\ [][NextTtl]_vars

\* C28: setsockopt(IP_TTL) has returned on the backend socket of every
\* connection that is at connect() or connected, and the socket's TTL is then
\* TTL_VALUE unless the call failed; the call, failed or not, leaves both
\* sockets and the slot as they are and goes on to connect(), which can
\* succeed after a failed call as after a successful one.
C28_TtlSetBeforeConnect ==
    /\ [](\A w \in TtlConns :
            /\ (task[w].pc = "connect" \/ task[w].powerwall_sock = "connected")
               => (task[w].ttl_tried /\ task[w].ttl \in {0, TTL_VALUE})
            /\ ~task[w].ttl_tried => task[w].ttl = 0
            /\ task[w].pc = "connect"
               => ENABLED (WorkerConnect(w) /\ task'[w].powerwall_sock = "connected"))
    /\ [][\A w \in TtlConns :
            (task[w].pc = "set_ttl" /\ task'[w] # task[w])
            => /\ task'[w].pc = "connect"
               /\ task'[w].ttl_tried
               /\ task'[w].client_sock = "open"
               /\ task'[w].powerwall_sock = "created"
               /\ task'[w].buffer_index = task[w].buffer_index
               /\ in_use' = in_use]_vars

\* two connected backend sockets: one with TTL_VALUE set, one whose
\* setsockopt(IP_TTL) failed
C28_Witness ==
    \E v, w \in TtlConns :
        /\ task[v].powerwall_sock = "connected" /\ task[v].ttl = TTL_VALUE
        /\ task[w].powerwall_sock = "connected"
        /\ task[w].ttl_tried /\ task[w].ttl = 0

\* ---- C29 ----------------------------------------------------------------
\* the locals and sockets of task w, and the slot it holds, stay as they are
Untouched(w) ==
    /\ task'[w] = task[w]
    /\ Holds(w) => in_use'[task[w].buffer_index] = in_use[task[w].buffer_index]

\* C29: while the task of connection w exists, no step of the acceptor, of
\* another connection task or of the HTTP server task changes its locals, its
\* sockets or the slot it holds; and the task leaves its forwarding loop only
\* by a step of its own: a select() error, the idle check, a recv() or a
\* send().
C29_NoExternalCancellation ==
    [][\A w \in LockConns :
        task[w].pc \notin {"none", "done"}
        => /\ (\/ ReaderStep
               \/ \E v \in LockConns \ {w} :
                     AcceptSpawn(v) \/ AcceptNoTask(v) \/ WorkerStep(v))
              => Untouched(w)
           /\ (PhaseOf(task[w]) = 3 /\ PhaseOf(task'[w]) = 4)
              => \/ WorkerSelectError(w) \/ WorkerIdleTimeout(w)
                 \/ WorkerClientRecv(w) \/ WorkerClientSend(w)
                 \/ WorkerPowerwallRecv(w) \/ WorkerPowerwallSend(w)]_vars

\* a task is forwarding with its slot in use after the other connection's
\* task has released its slot and ended, while the HTTP server task holds
\* request_log_mutex in a handler
C29_Witness ==
    \E w, v \in LockConns :
        /\ PhaseOf(task[w]) = 3
        /\ task[w].request_bytes_in > 0
        /\ in_use[task[w].buffer_index]
        /\ task[v].pc = "done"
        /\ task[v].powerwall_sock = "closed"
        /\ reader.pc = "scan"

\* ---- C30 ----------------------------------------------------------------
\* C30: the idle check does not end a connection before three times
\* timeout_ticks have passed without activity, and no worker stays in the
\* forwarding loop once three times timeout_ticks plus one slice have passed
\* since last_activity.  (The bytes forwarded are opaque to the worker: it
\* never observes a Connection: close, so keep-alive stays active.)
C30_KeepAliveTriplesTimeout ==
    /\ [][\A w \in FwdConns :
            (/\ task[w].pc = "select"
             /\ now' # now
             /\ PhaseOf(task'[w]) = 4)
            => now' - task[w].last_activity >= 3 * timeout_ticks]_vars
    /\ [](\A w \in FwdConns :
            task[w].pc \in LoopPcs
            => now - task[w].last_activity <= 3 * timeout_ticks + SelectSlice)

\* ---- the TLS-terminating reframer (4.4) -----------------------------------
\* SpecReframe: one TLS-terminating connection.  Its code is not under src/
\* (src/include/cert.h declares its certificate), so the completion detector
\* is taken from section 4.4.  A byte is "CR", "LF", a digit, a data byte "d",
\* or stands for a whole header line: "h" any line, "CL0".."CL2" a
\* Content-Length line with that value, "TE" Transfer-Encoding: chunked.  The
\* peer sends one message at a time; each read returns 1..MaxRead bytes of it.
MaxRead == 2
MaxMsgs == 2

\* the messages a peer sends in direction dir: a header block, the blank
\* line, and a body of Content-Length bytes or, chunked, of chunks closed by
\* the last chunk 0 CRLF CRLF (the second one carries 0 CRLF CRLF as data)
Messages(dir) ==
    LET blank == <<"CR", "LF", "CR", "LF">>
        line == <<"CL0", "CL1", "CL2">>
        sized == UNION {{<<line[n + 1]>> \o blank \o body :
                            body \in [1..n -> {"d", "CR", "LF"}]} : n \in 0..2}
        plain == {<<"h">> \o blank}
        chunked == {<<"TE">> \o blank \o <<"1", "CR", "LF", "d", "CR", "LF">>
                        \o <<"0">> \o blank,
                    <<"TE">> \o blank \o <<"5", "CR", "LF", "0">> \o blank
                        \o <<"CR", "LF", "0">> \o blank}
    IN  IF dir = "request" THEN sized \cup plain
        ELSE sized \cup plain \cup chunked

\* what the reframer finds in its buffer b after a read: the length of the
\* header block up to and including the first CRLF CRLF (0: not found yet),
\* the value of the first Content-Length line in it (0 when absent), whether
\* it has Transfer-Encoding: chunked, and whether 0 CRLF CRLF occurs anywhere
\* after the header block
Parse(b) ==
    LET At(s, i) == i + Len(s) - 1 <= Len(b) /\ SubSeq(b, i, i + Len(s) - 1) = s
        ends == {i \in 1..Len(b) : At(<<"CR", "LF", "CR", "LF">>, i)}
        hl == IF ends = {} THEN 0
              ELSE (CHOOSE i \in ends : \A j \in ends : i <= j) + 3
        value == [CL0 |-> 0, CL1 |-> 1, CL2 |-> 2]
        cls == {i \in 1..hl : b[i] \in DOMAIN value}
    IN  [headers_len |-> hl,
         content_length |-> IF cls = {} THEN 0
                            ELSE value[b[CHOOSE i \in cls : \A j \in cls : i <= j]],
         chunked |-> \E i \in 1..hl : b[i] = "TE",
         last_chunk |-> \E i \in (hl + 1)..Len(b) :
                            At(<<"0", "CR", "LF", "CR", "LF">>, i)]

\* a detector that takes the end of the header block for the end of the message
CompleteAtHeaders(dir, b) == Parse(b).headers_len > 0

\* the completion rules of 4.4 for a buffer b: request (step 3), response (step 2)
Complete(dir, b) ==
    LET p == Parse(b) IN
    /\ p.headers_len > 0
    /\ IF dir = "request" THEN Len(b) >= p.headers_len + p.content_length
       ELSE IF p.content_length > 0 THEN Len(b) >= p.headers_len + p.content_length
       ELSE IF p.chunked THEN p.last_chunk
       ELSE TRUE

\* the peer starts its next message, a request or a response
ReframeBegin ==
    /\ reframer.stream = <<>>
    /\ reframer.nmsg < MaxMsgs
    /\ \E dir \in {"request", "response"} : \E m \in Messages(dir) :
          reframer' = [reframer EXCEPT !.dir = dir, !.cur = m, !.stream = m,
                                       !.nmsg = @ + 1, !.reads = 0, !.detected = 0]
    /\ UNCHANGED <<poolVars, logVars, task, reader, hist, nrecv, now, bridge, boot>>

\* one read from the TLS session into the buffer, the search for the end of
\* the headers and, when the message is complete, its forwarding and the
\* reset of the buffer
ReframeRead ==
    /\ reframer.stream # <<>>
    /\ \E k \in 1..MaxRead :
        /\ k <= Len(reframer.stream)
        /\ LET b == reframer.buf \o SubSeq(reframer.stream, 1, k)
               rest == SubSeq(reframer.stream, k + 1, Len(reframer.stream))
               p == Parse(b)
           IN  reframer' =
                 IF Complete(reframer.dir, b)
                 THEN [reframer EXCEPT !.stream = rest, !.reads = @ + 1,
                                       !.buf = <<>>, !.headers_len = 0,
                                       !.content_length = 0,
                                       !.detected = @ + 1,
                                       !.forwarded = Append(@, b)]
                 ELSE [reframer EXCEPT !.stream = rest, !.reads = @ + 1,
                                       !.buf = b, !.headers_len = p.headers_len,
                                       !.content_length = p.content_length]
    /\ UNCHANGED <<poolVars, logVars, task, reader, hist, nrecv, now, bridge, boot>>

NextReframe == ReframeBegin \/ ReframeRead

SpecReframe == Init /\ [][NextReframe]_vars

\* C31: while a request is being read the buffer holds exactly the bytes
\* received, and the request is not detected complete while fewer than
\* headers_len + content_length bytes have accumulated; it is detected
\* complete exactly once, by the read that brings the last of its
\* headers_len + content_length bytes (content_length = 0 without the
\* header), and that read forwards the whole request and empties the buffer.
C31_RequestCompleteExactlyOnce ==
    /\ [](reframer.dir = "request"
          => /\ reframer.detected \in {0, 1}
             /\ reframer.detected = 0
                => /\ reframer.buf \o reframer.stream = reframer.cur
                   /\ reframer.headers_len > 0
                      => Len(reframer.buf)
                           < reframer.headers_len + reframer.content_length
             /\ reframer.detected = 1
                <=> (reframer.cur # <<>> /\ reframer.stream = <<>>)
             /\ reframer.detected = 1 => reframer.buf = <<>>)
    /\ [][(reframer.dir = "request" /\ reframer'.detected = reframer.detected + 1)
          => LET p == Parse(reframer.cur) IN
             /\ reframer'.forwarded = Append(reframer.forwarded, reframer.cur)
             /\ Len(reframer.cur) = p.headers_len + p.content_length
             /\ p.headers_len > 0
             /\ reframer'.buf = <<>>
             /\ reframer'.stream = <<>>]_vars

\* a request with a body of two bytes was forwarded after four partial reads,
\* the headers having been found before the body was there
C31_Witness ==
    /\ reframer.dir = "request"
    /\ reframer.detected = 1
    /\ reframer.reads >= 4
    /\ Parse(reframer.cur).content_length = 2
    /\ reframer.forwarded # <<>>
    /\ reframer.forwarded[Len(reframer.forwarded)] = reframer.cur

\* C32: a response is detected complete by the read that brings its last
\* byte and is forwarded whole: a chunked one only once its terminating
\* 0 CRLF CRLF has been received, one with Content-Length > 0 only when
\* headers_len + content_length bytes are there, and one with Content-Length
\* 0 and no chunking as soon as its headers end; before that read it is not
\* detected complete.
C32_ResponseCompleteAtEnd ==
    /\ [][(/\ reframer.dir = "response"
           /\ reframer.detected = 0
           /\ reframer'.detected = 1)
          => /\ reframer'.forwarded = Append(reframer.forwarded, reframer.cur)
             /\ reframer'.stream = <<>>
             /\ reframer'.buf = <<>>]_vars
    /\ [](/\ reframer.dir = "response"
          /\ reframer.detected = 0
          /\ reframer.cur # <<>>
          => /\ reframer.stream # <<>>
             /\ reframer.buf \o reframer.stream = reframer.cur)

\* ---- C33 ----------------------------------------------------------------
\* C33: a task that has counted response bytes is not waiting for a first
\* byte, so client data that arrives after response bytes finds the exchange
\* over: the task calls log_request with the byte counts, TTFB and result of
\* that exchange before anything else; log_request writes one entry with
\* them; and when it has returned the four fields are zero, the timer of the
\* new request runs and the new bytes are still to be sent and counted.
C33_ExchangeLoggedThenReset ==
    /\ [](\A w \in Conns :
            task[w].request_bytes_out > 0 => ~task[w].awaiting_first_byte)
    /\ [][\A w \in Conns :
            /\ (/\ task[w].pc = "select"
                /\ task[w].request_bytes_out > 0
                /\ task'[w].len > 0
                /\ task'[w].pc # "powerwall_send")
               => /\ task'[w].pc = "log_take"
                  /\ task'[w].ret = "client_reset"
                  /\ task'[w].log_args = LogArgs(task[w], w)
                  /\ task'[w].request_bytes_in = task[w].request_bytes_in
                  /\ task'[w].request_bytes_out = task[w].request_bytes_out
            /\ (/\ task[w].pc = "log_cs"
                /\ task[w].ret = "client_reset"
                /\ task'[w] # task[w])
               => /\ task'[w].pc = "client_reset"
                  /\ request_log'[request_log_index] = LogEntry(LogArgs(task[w], w))
                  /\ hist'.nrecorded = hist.nrecorded + 1
            /\ (task[w].pc = "client_reset" /\ task'[w] # task[w])
               => /\ task'[w].pc = "client_send"
                  /\ task'[w].len = task[w].len
                  /\ task'[w].request_bytes_in = 0
                  /\ task'[w].request_bytes_out = 0
                  /\ task'[w].current_ttfb_ms = 0
                  /\ task'[w].request_result = 0
                  /\ task'[w].awaiting_first_byte]_vars

\* the first exchange of a connection is in the log with its request and
\* response bytes, and the bytes of the next request are read but not counted yet
C33_Witness ==
    \E w \in Conns :
        /\ task[w].pc = "client_send"
        /\ task[w].len > 0
        /\ task[w].request_bytes_in = 0
        /\ task[w].request_bytes_out = 0
        /\ \E i \in LogIdx :
            /\ request_log[i].valid
            /\ request_log[i].source_ip = w
            /\ request_log[i].bytes_in > 0
            /\ request_log[i].bytes_out > 0

\* ---- C34 ----------------------------------------------------------------
\* the sums of bytes_in and of bytes_out over the entries of connection w in
\* request_log
Logged(w) ==
    LET RECURSIVE Sum(_)
        Sum(S) == IF S = {} THEN [bytes_in |-> 0, bytes_out |-> 0]
                  ELSE LET i == CHOOSE j \in S : TRUE
                           r == Sum(S \ {i})
                       IN  [bytes_in |-> r.bytes_in + request_log[i].bytes_in,
                            bytes_out |-> r.bytes_out + request_log[i].bytes_out]
    IN  Sum({i \in LogIdx : request_log[i].valid /\ request_log[i].source_ip = w})

\* C34: as long as no record was dropped, the bytes of the chunks forwarded
\* completely in each direction are the bytes of the connection's entries
\* plus the bytes counted for the exchange in progress; no entry has a byte
\* that was not forwarded; and when the task has ended, the sums of bytes_in
\* and bytes_out over its entries are the bytes of the chunks forwarded
\* completely from the client and from the backend.
C34_BytesLoggedAreBytesForwarded ==
    \A w \in FwdConns :
        hist.ncalled = hist.nrecorded
        => /\ Logged(w).bytes_in <= hist.fwd.client
           /\ Logged(w).bytes_out <= hist.fwd.powerwall
           /\ task[w].pc \in LoopPcs \ {"client_reset"}
              => /\ Logged(w).bytes_in + task[w].request_bytes_in = hist.fwd.client
                 /\ Logged(w).bytes_out + task[w].request_bytes_out = hist.fwd.powerwall
           /\ task[w].pc = "done"
              => /\ Logged(w).bytes_in = hist.fwd.client
                 /\ Logged(w).bytes_out = hist.fwd.powerwall

\* a task has ended after a chunk of two bytes went to the backend and a
\* chunk read from the backend was not sent completely: its entry has the two
\* bytes forwarded and none of the chunk that was cut short
C34_Witness ==
    \E w \in FwdConns :
        /\ task[w].pc = "done"
        /\ hist.fwd.client = 2
        /\ hist.fwd.powerwall = 0
        /\ Len(hist.rd.powerwall) = 2
        /\ Len(hist.wr.powerwall) = 1
        /\ Logged(w) = [bytes_in |-> 2, bytes_out |-> 0]

\* ---- C35 ----------------------------------------------------------------
\* C35: request_log_index is an index of the ring and is the number of
\* entries written modulo REQUEST_LOG_SIZE; a valid flag that is set stays
\* set; the number of valid entries is the smaller of the number of entries
\* written and REQUEST_LOG_SIZE; and until REQUEST_LOG_SIZE entries are
\* written the valid entries are those at 0 .. request_log_index - 1.
C35_RingIndexAndValidFlags ==
    /\ [](/\ request_log_index \in LogIdx
          /\ request_log_index = hist.nrecorded % REQUEST_LOG_SIZE
          /\ Cardinality({i \in LogIdx : request_log[i].valid})
               = Min(hist.nrecorded, REQUEST_LOG_SIZE)
          /\ hist.nrecorded < REQUEST_LOG_SIZE
             => {i \in LogIdx : request_log[i].valid} = 0..(request_log_index - 1))
    /\ [][\A i \in LogIdx : request_log[i].valid => request_log'[i].valid]_vars

\* the ring has wrapped by one entry after a call was dropped: every entry
\* is valid and the index is back at 1
C35_Witness ==
    /\ hist.nrecorded = REQUEST_LOG_SIZE + 1
    /\ hist.ncalled = REQUEST_LOG_SIZE + 2
    /\ request_log_index = 1
    /\ \A i \in LogIdx : request_log[i].valid

\* ---- the running average over any samples ---------------------------------
\* SpecAvg: one task calls log_request a few times with a TTFB from the whole
\* range of uint16_t and with a result of success or error.
MaxAvgCalls == 4
AvgCallers == {1}
AvgSamples == {0, 1, 2, 100, UINT16_MAX}

AvgCall(t) ==
    /\ task[t].pc = "none"
    /\ hist.calls < MaxAvgCalls
    /\ \E ms \in AvgSamples, r \in {0, 2} :
        task' = [task EXCEPT ![t].pc = "log_take", ![t].ret = "none",
                             ![t].log_args = [source_ip |-> t, bytes_in |-> 1,
                                              bytes_out |-> 1, ttfb_ms |-> ms,
                                              result |-> r]]
    /\ hist' = [hist EXCEPT !.calls = @ + 1]
    /\ UNCHANGED <<poolVars, logVars, reader, nrecv, now, variantVars>>

NextAvg == \E t \in AvgCallers : AvgCall(t) \/ LogTake(t) \/ LogWrite(t)

SpecAvg == Init /\ [][NextAvg]_vars

\* C36: before the first sample avg_ttfb_ms is 0; afterwards it is at least
\* the smallest and at most the largest sample written so far, hence between
\* 1 and UINT16_MAX; and when a sample is written, avg_ttfb_ms * 4 + ttfb_ms
\* is below the range of uint32_t.
C36_AverageWithinSamples ==
    /\ [](LET s == SamplesOf(hist.recorded) IN
          /\ s = <<>> => avg_ttfb_ms = 0
          /\ s # <<>>
             => /\ \E i \in 1..Len(s) : s[i] <= avg_ttfb_ms
                /\ \E i \in 1..Len(s) : avg_ttfb_ms <= s[i]
                /\ avg_ttfb_ms >= 1
                /\ avg_ttfb_ms <= UINT16_MAX)
    /\ [][\A t \in AvgCallers :
            (task[t].pc = "log_cs" /\ LogIsSample(task[t].log_args))
            => avg_ttfb_ms * 4 + task[t].log_args.ttfb_ms < UINT32_RANGE]_vars

\* the average lies strictly between the samples written: the largest and
\* the smallest of the range are among them
C36_Witness ==
    LET s == SamplesOf(hist.recorded) IN
    /\ Len(s) >= 3
    /\ \E i \in 1..Len(s) : s[i] = 1
    /\ \E i \in 1..Len(s) : s[i] = UINT16_MAX
    /\ avg_ttfb_ms \notin {1, UINT16_MAX}
    /\ ttfb_sample_count = Len(s)


\* ---- the startup: app_main, wifi_services_task, tcp_server_task -----------
\* SpecBoot: from app_main's wait for the Ethernet address to one connection
\* served, while the links come and go and the HTTP server task runs its
\* dashboard handlers from start_ota_server on.
MaxBootEvents == 3

\* the handlers of the Ethernet, WiFi and IP events set and clear the bits
BootEvent ==
    /\ boot.events < MaxBootEvents
    /\ \/ boot' = [boot EXCEPT !.ETH_GOT_IP_BIT = TRUE, !.eth_seen = TRUE,
                               !.events = @ + 1]
       \/ boot' = [boot EXCEPT !.ETH_GOT_IP_BIT = FALSE, !.events = @ + 1]
       \/ boot' = [boot EXCEPT !.WIFI_CONNECTED_BIT = TRUE, !.events = @ + 1]
       \/ boot' = [boot EXCEPT !.WIFI_CONNECTED_BIT = FALSE, !.events = @ + 1]
    /\ UNCHANGED <<poolVars, logVars, task, reader, hist, nrecv, now,
                   reframer, bridge>>

\* app_main's wait for ETH_GOT_IP_BIT returns: start_ota_server starts the
\* HTTP server and xTaskCreate starts wifi_services_task
BootAppMain ==
    /\ boot.app_main = "wait_eth"
    /\ boot.ETH_GOT_IP_BIT
    /\ boot' = [boot EXCEPT !.app_main = "done", !.wifi_services = "wait_wifi"]
    /\ UNCHANGED <<poolVars, logVars, task, reader, hist, nrecv, now,
                   reframer, bridge>>

\* a wifi_services_task that starts tcp_server_task before init_buffer_pool
BootServicesSpawnsFirst ==
    \/ /\ boot.wifi_services = "wait_wifi"
       /\ boot.WIFI_CONNECTED_BIT
       /\ boot' = [boot EXCEPT !.wifi_services = "init"]
       /\ UNCHANGED <<poolVars, logVars, task, reader, hist, nrecv, now,
                      reframer, bridge>>
    \/ /\ boot.wifi_services = "init"
       /\ InitBufferPool
    \/ /\ boot.wifi_services = "init"
       /\ boot' = [boot EXCEPT !.wifi_services = "done", !.tcp_server = "wait_eth"]
       /\ UNCHANGED <<poolVars, logVars, task, reader, hist, nrecv, now,
                      reframer, bridge>>

\* wifi_services_task: its wait for WIFI_CONNECTED_BIT returns with the bit
\* set; init_buffer_pool; xTaskCreate starts tcp_server_task and the task is
\* deleted
BootServices ==
    \/ /\ boot.wifi_services = "wait_wifi"
       /\ boot.WIFI_CONNECTED_BIT
       /\ boot' = [boot EXCEPT !.wifi_services = "init"]
       /\ UNCHANGED <<poolVars, logVars, task, reader, hist, nrecv, now,
                      reframer, bridge>>
    \/ /\ boot.wifi_services = "init"
       /\ InitBufferPool
    \/ /\ boot.wifi_services = "init"
       /\ buffer_pool_mutex # NoMutex
       /\ boot' = [boot EXCEPT !.wifi_services = "done", !.tcp_server = "wait_eth"]
       /\ UNCHANGED <<poolVars, logVars, task, reader, hist, nrecv, now,
                      reframer, bridge>>

\* tcp_server_task: its wait for ETH_GOT_IP_BIT returns; socket, bind and
\* listen succeed or the task is deleted; the accept loop
BootServer ==
    \/ /\ boot.tcp_server = "wait_eth"
       /\ boot.ETH_GOT_IP_BIT
       /\ boot' = [boot EXCEPT !.tcp_server = "bind"]
       /\ UNCHANGED <<poolVars, logVars, task, reader, hist, nrecv, now,
                      reframer, bridge>>
    \/ /\ boot.tcp_server = "bind"
       /\ \E next \in {"accept", "deleted"} :
             boot' = [boot EXCEPT !.tcp_server = next]
       /\ UNCHANGED <<poolVars, logVars, task, reader, hist, nrecv, now,
                      reframer, bridge>>
    \/ /\ boot.tcp_server = "accept"
       /\ \E w \in DropConns : AcceptSpawn(w) \/ AcceptNoTask(w)

\* the HTTP server task, which exists from start_ota_server on, runs a
\* dashboard handler; while request_log_mutex is NULL the handler emits no
\* entry and returns
BootReader ==
    /\ boot.app_main = "done"
    /\ \/ ReaderStart
       \/ /\ reader.pc = "take"
          /\ request_log_mutex = NoMutex
          /\ reader' = InitReader
          /\ boot' = [boot EXCEPT !.early = TRUE]
          /\ UNCHANGED <<poolVars, logVars, task, hist, nrecv, now,
                         reframer, bridge>>
       \/ ReaderTake \/ ReaderTimeout \/ ReaderScan

NextBoot ==
    \/ BootEvent
    \/ BootAppMain
    \/ BootServices
    \/ BootServer
    \/ BootReader
    \/ \E w \in DropConns :
        \/ AcqTake(w) \/ AcqScan(w) \/ RelTake(w) \/ RelClear(w)
        \/ LogTake(w) \/ LogTimeout(w) \/ LogWrite(w)
        \/ WorkerAdmit(w) \/ WorkerExitSocket(w) \/ WorkerExitConnect(w)
        \/ WorkerSelectError(w) \/ WorkerIdleTimeout(w)
        \/ WorkerClientRecv(w) \/ WorkerClientReset(w) \/ WorkerClientSend(w)
        \/ WorkerPowerwallRecv(w) \/ WorkerPowerwallSend(w)
        \/ WorkerCleanupRelease(w) \/ WorkerExitCleanup(w)

SpecBoot == InitBoot /\ [][NextBoot]_vars

\* C37: tcp_server_task leaves its wait only while ETH_GOT_IP_BIT is set, so
\* it binds and listens only after the bit was set; while a mutex is not
\* created no connection is accepted, no task of a connection exists and
\* no acquire_buffer_pair, release_buffer_pair or log_request has run;
\* init_buffer_pool leaves both mutexes created and free, every slot free
\* and every log entry invalid; a dashboard handler never reads the ring
\* while request_log_mutex is not created.
C37_StartupOrdering ==
    /\ [][(boot.tcp_server = "wait_eth" /\ boot'.tcp_server # "wait_eth")
            => boot.ETH_GOT_IP_BIT]_vars
    /\ [](boot.tcp_server \in {"bind", "accept"} => boot.eth_seen)
    /\ []((buffer_pool_mutex = NoMutex \/ request_log_mutex = NoMutex)
            => /\ boot.tcp_server = "none"
               /\ \A w \in Conns : task[w] = InitTask
               /\ hist = InitHist
               /\ reader.pc # "scan")
    /\ [][(buffer_pool_mutex = NoMutex /\ buffer_pool_mutex' # NoMutex)
            => /\ buffer_pool_mutex' = Free
               /\ request_log_mutex' = Free
               /\ \A i \in Slots : ~in_use'[i]
               /\ \A i \in LogIdx : ~request_log'[i].valid]_vars
    /\ [][request_log_mutex = NoMutex => reader'.pc # "scan"]_vars

\* a handler ran before init_buffer_pool and emitted nothing; later the
\* acceptor, listening, accepted a connection whose record is in the ring,
\* and the Ethernet link has gone down since
C37_Witness ==
    /\ boot.early
    /\ boot.tcp_server = "accept"
    /\ ~boot.ETH_GOT_IP_BIT
    /\ \E w \in DropConns : task[w].pc = "done"
    /\ hist.nrecorded >= 1
    /\ \E i \in LogIdx : request_log[i].valid


\* ---- the NAPT bridge: event callbacks and the main loop -------------------
\* SpecBridge: the event task delivers the WiFi and Ethernet events, each
\* callback running to its end, while the loop task runs loop() statement by
\* statement.
MaxBridgeEvents == 5

\* a WiFiEvent whose STA_GOT_IP case does not schedule the NAPT check
WiFiEventNoCheck ==
    /\ bridge.events < MaxBridgeEvents
    /\ \/ /\ ~bridge.wifi_up
          /\ bridge' = [bridge EXCEPT !.wifi_up = TRUE, !.wifi_connected = TRUE,
                                      !.events = @ + 1,
                                      !.last = "WIFI_STA_GOT_IP"]
       \/ bridge' = [bridge EXCEPT !.wifi_up = FALSE, !.wifi_connected = FALSE,
                                   !.napt_enabled = FALSE,
                                   !.need_napt_check = FALSE,
                                   !.events = @ + 1, !.drops = @ + 1,
                                   !.last = "WIFI_STA_DISCONNECTED"]
    /\ UNCHANGED <<poolVars, logVars, task, reader, hist, nrecv, now,
                   reframer, boot>>

\* WiFiEvent: ARDUINO_EVENT_WIFI_STA_GOT_IP and
\* ARDUINO_EVENT_WIFI_STA_DISCONNECTED (the other events change nothing)
WiFiEvent ==
    /\ bridge.events < MaxBridgeEvents
    /\ \/ /\ ~bridge.wifi_up
          /\ bridge' = [bridge EXCEPT !.wifi_up = TRUE, !.wifi_connected = TRUE,
                                      !.need_napt_check = TRUE,
                                      !.events = @ + 1,
                                      !.last = "WIFI_STA_GOT_IP"]
       \/ bridge' = [bridge EXCEPT !.wifi_up = FALSE, !.wifi_connected = FALSE,
                                   !.napt_enabled = FALSE,
                                   !.need_napt_check = FALSE,
                                   !.events = @ + 1, !.drops = @ + 1,
                                   !.last = "WIFI_STA_DISCONNECTED"]
    /\ UNCHANGED <<poolVars, logVars, task, reader, hist, nrecv, now,
                   reframer, boot>>

\* EthernetEvent: ARDUINO_EVENT_ETH_CONNECTED, ARDUINO_EVENT_ETH_GOT_IP,
\* ARDUINO_EVENT_ETH_DISCONNECTED and ARDUINO_EVENT_ETH_STOP
EthernetEvent ==
    /\ bridge.events < MaxBridgeEvents
    /\ \/ /\ bridge.eth_up = "down"
          /\ bridge' = [bridge EXCEPT !.eth_up = "connected",
                                      !.eth_connected = TRUE,
                                      !.events = @ + 1, !.last = "ETH_CONNECTED"]
       \/ /\ bridge.eth_up = "connected"
          /\ bridge' = [bridge EXCEPT !.eth_up = "got_ip",
                                      !.need_napt_check = TRUE,
                                      !.need_web_server_start = TRUE,
                                      !.events = @ + 1, !.last = "ETH_GOT_IP"]
       \/ /\ bridge.eth_up # "down"
          /\ bridge' = [bridge EXCEPT !.eth_up = "down",
                                      !.eth_connected = FALSE,
                                      !.napt_enabled = FALSE,
                                      !.need_napt_check = FALSE,
                                      !.need_web_server_start = FALSE,
                                      !.events = @ + 1, !.drops = @ + 1,
                                      !.last = "ETH_DISCONNECTED"]
       \/ bridge' = [bridge EXCEPT !.eth_up = "down", !.eth_connected = FALSE,
                                   !.events = @ + 1, !.drops = @ + 1,
                                   !.last = "ETH_STOP"]
    /\ UNCHANGED <<poolVars, logVars, task, reader, hist, nrecv, now,
                   reframer, boot>>

\* loop(), up to its call of enableNAPT: the deferred start of the web
\* server; the test of need_napt_check; its reset
loop ==
    /\ \/ /\ bridge.pc = "loop"
          /\ bridge' =
               IF /\ bridge.need_web_server_start
                  /\ ~bridge.web_server_started
                  /\ bridge.eth_connected
               THEN [bridge EXCEPT !.need_web_server_start = FALSE,
                                   !.web_server_started = TRUE,
                                   !.pc = "need_napt_check"]
               ELSE [bridge EXCEPT !.pc = "need_napt_check"]
       \/ /\ bridge.pc = "need_napt_check"
          /\ bridge' = [bridge EXCEPT !.pc = IF bridge.need_napt_check
                                               THEN "reset" ELSE "loop"]
       \/ /\ bridge.pc = "reset"
          /\ bridge' = [bridge EXCEPT !.need_napt_check = FALSE,
                                      !.pc = "napt_enabled"]
    /\ UNCHANGED <<poolVars, logVars, task, reader, hist, nrecv, now,
                   reframer, boot>>

\* enableNAPT, called by loop(): the reads of napt_enabled, wifi_connected
\* and eth_connected, each of which can end the call; tcpip_callback and the
\* write of napt_enabled
enableNAPT ==
    /\ \/ /\ bridge.pc = "napt_enabled"
          /\ bridge' = [bridge EXCEPT !.pc = IF bridge.napt_enabled
                                               THEN "loop" ELSE "wifi_connected"]
       \/ /\ bridge.pc = "wifi_connected"
          /\ bridge' = [bridge EXCEPT !.pc = IF bridge.wifi_connected
                                               THEN "eth_connected" ELSE "loop"]
       \/ /\ bridge.pc = "eth_connected"
          /\ bridge' = [bridge EXCEPT !.pc = IF bridge.eth_connected
                                               THEN "set" ELSE "loop"]
       \/ /\ bridge.pc = "set"
          /\ bridge' = [bridge EXCEPT !.napt_enabled = TRUE, !.sets = @ + 1,
                                      !.pc = "loop"]
    /\ UNCHANGED <<poolVars, logVars, task, reader, hist, nrecv, now,
                   reframer, boot>>

NextBridge == WiFiEvent \/ EthernetEvent \/ loop \/ enableNAPT

SpecBridge == Init /\ [][NextBridge]_vars

\* C38: napt_enabled is true only while wifi_connected and eth_connected are
\* both true, and every disconnect or stop event of either interface leaves
\* napt_enabled false.
C38_NaptOnlyWhileBothConnected ==
    /\ [](bridge.napt_enabled
            => (bridge.wifi_connected /\ bridge.eth_connected))
    /\ [][(/\ bridge'.events # bridge.events
           /\ bridge'.last \in {"WIFI_STA_DISCONNECTED", "ETH_DISCONNECTED",
                                 "ETH_STOP"})
            => ~bridge'.napt_enabled]_vars


\* SpecBridgeLive: SpecBridge with the loop task scheduled again and again
\* (the Arduino core calls loop() forever and nothing in it blocks).  Nothing
\* is assumed of the events: each of them may or may not come.
SpecBridgeLive == SpecBridge /\ WF_vars(loop \/ enableNAPT)

\* C39: from every state in which WiFi and Ethernet both have their address
\* (the STA_GOT_IP and ETH_GOT_IP events were delivered and no disconnect or
\* stop since), napt_enabled becomes true unless one of the links goes down
\* first.
C39_NaptEventuallyEnabled ==
    (bridge.wifi_up /\ bridge.eth_up = "got_ip")
        ~> (bridge.napt_enabled \/ ~(bridge.wifi_up /\ bridge.eth_up = "got_ip"))

\* enableNAPT has set napt_enabled a second time, after a disconnect and the
\* reconnect, and both links have their address
C39_Witness ==
    /\ bridge.sets >= 2
    /\ bridge.drops >= 1
    /\ bridge.napt_enabled
    /\ bridge.wifi_connected /\ bridge.eth_connected
    /\ bridge.wifi_up /\ bridge.eth_up = "got_ip"
    /\ bridge.last \in {"WIFI_STA_GOT_IP", "ETH_GOT_IP"}

====
